---- MODULE Spec2Model ----
(***************************************************************************)
(* The radar refresh pipeline of mrms-radar-processing: the dedup ledger   *)
(* (src/src/download_tracker.py), the update scheduler                     *)
(* (src/src/scheduler.py), the multi-elevation downloader                  *)
(* (src/src/scraper.py) and the cache janitor (src/src/utils.py).          *)
(*                                                                         *)
(* A scan identifier is modelled by its rank in time order (1..MaxId): the *)
(* fixed-width "YYYYMMDD-HHMMSS" strings the ledger sorts compare          *)
(* lexicographically exactly as the instants they stand for.               *)
(***************************************************************************)
EXTENDS Integers, Sequences, FiniteSets, TLC

\* ------------------------------------------------------------------ bounds
MaxId == 2          \* scan identifiers on the remote listings are 1..MaxId
MaxTime == 2        \* readings of the wall clock are 0..MaxTime
MaxTasks == 2       \* update_radar_data invocations created in one run
MaxFaults == 1      \* failures (network, disk) injected in one run
MaxCallers == 2     \* threads that call into the DownloadTracker
MaxLinks == 3       \* <a> elements on one directory-listing page
MaxLayers == 3      \* elevations handed to the merger in one call
max_timestamps == 1 \* DownloadTracker capacity K (100 by default), scaled down
max_cache_size == 2 \* settings.max_cache_size (50 by default), scaled down

\* settings.elevation_angles, ascending (nine angles by default; the model
\* keeps the lowest and one more). The lowest angle, 0.50, is the one
\* scheduler.py:52 fetches and scraper.py:248 takes the target from.
elevation_angles == <<1, 2>>

Ids == 1..MaxId
\* The identifiers given to the ledger on its own: enough to overflow it twice.
LedgerIds == 1..(max_timestamps + 2)
Tasks == 1..MaxTasks
Callers == 1..MaxCallers
Angles == {elevation_angles[i] : i \in 1..Len(elevation_angles)}
LowestAngle == elevation_angles[1]

VARIABLES
    \* RadarScheduler
    scheduler,      \* self.scheduler: "none" (None) or "running"
    _is_running,    \* self._is_running
    task,           \* the asyncio tasks wrapping update_radar_data(): per task its
                    \* position and its locals
    last_outcome,   \* history: how the cycle that ended last ended ("none": no
                    \* cycle has ended)
    last_result,    \* history: the elevations in the result the downloader
                    \* returned to that cycle ({}: an empty result, or none)
    faults,         \* history: the failures injected so far
    \* the world
    remote,         \* remote[a]: the newest identifier on elevation a's remote
                    \* listing, which holds the scans 1..remote[a] (0: none yet)
    dirs,           \* dirs[a]: elevation a's cache directory, its files in
                    \* modification-time order, oldest first
    partial,        \* the cache files whose content is incomplete: what a
                    \* write that failed midway left at its output path
    \* DownloadTracker
    _timestamps,    \* self._timestamps: the in-memory set
    _last_check,    \* self._last_check: a clock reading
    tracker_file,   \* downloads.json: [state, timestamps, last_check]
    now,            \* the wall clock datetime.utcnow() reads
    lastAdd,        \* history: the id of the add_timestamp call that returned last
                    \* with no other ledger call since (0: none)
    repeated,       \* history: that call came right after an add_timestamp of the same id
    added,          \* history: the ids the ledger was given since it was constructed
                    \* or cleared: those of the record it loaded, those of its adds
    loaded,         \* history: the state of the record the constructor found
                    \* ("none": the ledger was added to or cleared since)
    \* threads calling into the DownloadTracker
    lock,           \* self._lock: 0 (free) or the caller that holds it
    caller,         \* caller[c]: the call thread c is in, and its position in it
    \* one call of a pure function
    input,          \* the function called and its arguments
    output          \* what the call returned (done is FALSE until it has)

ledgerVars == <<_timestamps, _last_check, tracker_file>>
histVars == <<lastAdd, repeated, added, loaded>>
schedVars == <<scheduler, _is_running, task, last_outcome, last_result, faults, remote, dirs,
              partial>>
threadVars == <<lock, caller>>
pureVars == <<input, output>>
sideVars == <<lock, caller, input, output>>
vars == <<scheduler, _is_running, task, last_outcome, last_result, faults, remote, dirs, partial,
          _timestamps, _last_check, tracker_file, now, lastAdd, repeated, added, loaded,
          lock, caller, input, output>>

\* ----------------------------------------------------------- pure helpers
Max(S) == CHOOSE x \in S : \A y \in S : y <= x

Range(s) == {s[i] : i \in 1..Len(s)}

RECURSIVE SortDesc(_)
\* sorted(list(S), reverse=True)
SortDesc(S) == IF S = {} THEN <<>> ELSE <<Max(S)>> \o SortDesc(S \ {Max(S)})

\* s[:n]
Take(s, n) == SubSeq(s, 1, IF n < Len(s) THEN n ELSE Len(s))

\* ------------------------------------------------------ the persisted record
MissingFile == [state |-> "missing", timestamps |-> <<>>, last_check |-> 0]
CorruptFile == [state |-> "corrupt", timestamps |-> <<>>, last_check |-> 0]
Record(ids, lc) == [state |-> "ok", timestamps |-> ids, last_check |-> lc]
\* A file that does not parse as a record, with the ids a reader can still
\* make out in its text (a record cut short, or with a broken brace).
Garbled(ids) == [state |-> "corrupt", timestamps |-> ids, last_check |-> 0]

\* The outcomes of one write of the record: it succeeds, open() fails and the
\* file is left as it was, or the write fails after open(..., "w") truncated it.
SaveOutcomes == {"ok", "eopen", "ewrite"}

\* DownloadTracker._save: a full rewrite; every exception is logged and swallowed.
_save(S, lc, f, outcome) ==
    CASE outcome = "ok"     -> Record(Take(SortDesc(S), max_timestamps), lc)
      [] outcome = "eopen"  -> f
      [] outcome = "ewrite" -> CorruptFile

\* _load believing what it could read of a record that does not parse.
_load_trusts_corrupt(f, t, outcome) ==
    CASE f.state = "missing" -> <<{}, t, _save({}, t, f, outcome)>>
      [] f.state = "ok"      -> <<Range(f.timestamps), f.last_check, f>>
      [] f.state = "corrupt" -> <<Range(f.timestamps), t, f>>

\* DownloadTracker._load: the in-memory state <<set, last_check, file>> after
\* construction over file f at clock reading t. No path raises: the write of
\* the fresh record swallows its exceptions (download_tracker.py:63-64), and
\* whatever reading or parsing raises is caught (download_tracker.py:48-51).
_load(f, t, outcome) ==
    CASE f.state = "missing" -> <<{}, t, _save({}, t, f, outcome)>>
      [] f.state = "ok"      -> <<Range(f.timestamps), f.last_check, f>>
      [] f.state = "corrupt" -> <<{}, t, f>>

\* has_timestamp answering from a set that is never filled.
has_timestamp_never(S, id) == id \in {}

\* DownloadTracker.has_timestamp
has_timestamp(S, id) == id \in S

\* DownloadTracker.get_timestamps
get_timestamps(S) == SortDesc(S)

\* cleanup_old with the sort's reverse=True forgotten: the oldest K are kept.
cleanup_old_keep_oldest(S) ==
    IF Cardinality(S) <= max_timestamps
    THEN S
    ELSE {x \in S : Cardinality({y \in S : y < x}) < max_timestamps}

\* DownloadTracker.cleanup_old: the set it leaves in self._timestamps
cleanup_old(S) ==
    IF Cardinality(S) <= max_timestamps
    THEN S
    ELSE Range(Take(SortDesc(S), max_timestamps))

\* add_timestamp without its presence check and trimming before it inserts.
add_timestamp_trim_first(S, lc, f, id, t, outcome) ==
    LET S2 == cleanup_old(S) \cup {id}
    IN  <<S2, t, _save(S2, t, f, outcome)>>

\* DownloadTracker.add_timestamp, run under self._lock: the state
\* <<set, last_check, file>> it leaves.
add_timestamp(S, lc, f, id, t, outcome) ==
    IF id \in S
    THEN <<S, lc, f>>
    ELSE LET S2 == cleanup_old(S \cup {id})
         IN  <<S2, t, _save(S2, t, f, outcome)>>

\* DownloadTracker.clear
clear(f, t, outcome) == <<{}, t, _save({}, t, f, outcome)>>

\* ---------------------------------------------------- the ledger on its own
\* The records a DownloadTracker may find on disk when it is constructed: none,
\* an unparseable one, or one written by a tracker of any capacity (the
\* integration test opens the scheduler's file with max_timestamps=5).
InitialRecords ==
    {MissingFile} \cup {Garbled(SortDesc(S)) : S \in SUBSET LedgerIds}
                  \cup {Record(SortDesc(S), 0) : S \in SUBSET LedgerIds}

\* The scheduler's variables at rest: no scheduler object, no task, nothing
\* on the remote, empty cache directories.
\* A thread that is in no call of the tracker; no pure function under call.
NoCall == [pc |-> "idle", op |-> "none", id |-> 0]
NoInput == [op |-> "none"]
NoOutput == [done |-> FALSE]

NoTask ==
    [pc |-> "none", timer |-> FALSE, arrived |-> FALSE, ts |-> 0,
     match |-> [a \in Angles |-> 0], idx |-> 0, downloaded |-> {}]

LedgerInit ==
    /\ scheduler = "none"
    /\ _is_running = FALSE
    /\ task = [t \in Tasks |-> NoTask]
    /\ last_outcome = "none"
    /\ last_result = {}
    /\ faults = 0
    /\ lock = 0
    /\ caller = [c \in Callers |-> NoCall]
    /\ input = NoInput
    /\ output = NoOutput
    /\ remote = [a \in Angles |-> 0]
    /\ dirs = [a \in Angles |-> <<>>]
    /\ partial = {}
    /\ now = 0
    /\ lastAdd = 0
    /\ repeated = FALSE
    /\ \E f \in InitialRecords :
         LET st == _load(f, 0, "ok")
         IN  /\ _timestamps = st[1]
             /\ _last_check = st[2]
             /\ tracker_file = st[3]
             /\ added = st[1]
             /\ loaded = f.state

\* add_timestamp(id) whose write of the record has the given outcome.
LAddWith(id, outcome) ==
    LET st == add_timestamp(_timestamps, _last_check, tracker_file, id, now, outcome)
    IN  /\ _timestamps' = st[1]
        /\ _last_check' = st[2]
        /\ tracker_file' = st[3]
        /\ lastAdd' = id
        /\ repeated' = (lastAdd = id)
        /\ added' = added \cup {id}
        /\ loaded' = "none"
        /\ UNCHANGED <<now, schedVars, sideVars>>

LAdd(id) == LAddWith(id, "ok")

LHas(id) ==
    /\ has_timestamp(_timestamps, id) \in BOOLEAN
    /\ lastAdd' = 0
    /\ repeated' = FALSE
    /\ UNCHANGED <<_timestamps, _last_check, tracker_file, now, added, loaded, schedVars, sideVars>>

LList ==
    /\ Len(get_timestamps(_timestamps)) = Cardinality(_timestamps)
    /\ lastAdd' = 0
    /\ repeated' = FALSE
    /\ UNCHANGED <<_timestamps, _last_check, tracker_file, now, added, loaded, schedVars, sideVars>>

\* clear() whose write of the record has the given outcome.
LClearWith(outcome) ==
    LET st == clear(tracker_file, now, outcome)
    IN  /\ _timestamps' = st[1]
        /\ _last_check' = st[2]
        /\ tracker_file' = st[3]
        /\ lastAdd' = 0
        /\ repeated' = FALSE
        /\ added' = {}
        /\ loaded' = "none"
        /\ UNCHANGED <<now, schedVars, sideVars>>

LClear == LClearWith("ok")

Tick ==
    /\ now < MaxTime
    /\ now' = now + 1
    /\ UNCHANGED <<_timestamps, _last_check, tracker_file, histVars, schedVars, sideVars>>

LedgerNext ==
    \/ \E id \in LedgerIds : LAdd(id)
    \/ \E id \in LedgerIds : LHas(id)
    \/ LList
    \/ LClear
    \/ Tick

LedgerSpec == LedgerInit /\ [][LedgerNext]_vars

\* The process restarts: a new DownloadTracker is constructed over the file.
LConstruct(outcome) ==
    LET st == _load(tracker_file, now, outcome)
    IN  /\ _timestamps' = st[1]
        /\ _last_check' = st[2]
        /\ tracker_file' = st[3]
        /\ lastAdd' = 0
        /\ repeated' = FALSE
        /\ added' = st[1]
        /\ loaded' = tracker_file.state
        /\ UNCHANGED <<now, schedVars, sideVars>>

\* The ledger over a disk whose writes may fail, across restarts.
DiskNext ==
    \/ \E id \in LedgerIds, outcome \in SaveOutcomes : LAddWith(id, outcome)
    \/ \E id \in LedgerIds : LHas(id)
    \/ LList
    \/ \E outcome \in SaveOutcomes : LClearWith(outcome)
    \/ \E outcome \in SaveOutcomes : LConstruct(outcome)
    \/ Tick

DiskSpec == LedgerInit /\ [][DiskNext]_vars

C10_SizeAtMostK == lastAdd # 0 => Cardinality(_timestamps) <= max_timestamps

\* C39 (as stated): immediately after a ledger is constructed from a persisted
\* record, and after any has, list or add call that follows, its in-memory set
\* holds at most K identifiers, also when the record was written by a ledger
\* of a larger capacity.
C39_LoadedSizeAtMostK ==
    loaded = "ok" => Cardinality(_timestamps) <= max_timestamps

\* The K largest of a set of ids, all of them when there are at most K.
Newest(S) == {x \in S : Cardinality({y \in S : y > x}) < max_timestamps}

\* C11 (as stated): after any sequence of add calls the ledger retains exactly
\* the K newest of all the ids ever added, all of them when fewer than K
\* distinct ids were added.
C11_RetainsKNewest == lastAdd # 0 => _timestamps = Newest(added)

\* C14: constructing a ledger over a record that is missing, or present but
\* not parseable, yields an empty ledger: has(id) is false for every id and
\* list() is empty. (That the constructor returns at all is _load having an
\* outcome for every file and every outcome of its write.)
C14_ColdStart ==
    loaded \in {"missing", "corrupt"} =>
        /\ \A id \in LedgerIds : ~(id \in _timestamps)
        /\ SortDesc(_timestamps) = <<>>

\* C14 witness: some time into the run the ledger is one constructed over an
\* unparseable record in which ids can still be read, and it is empty.
C14_Witness ==
    /\ loaded = "corrupt"
    /\ tracker_file.timestamps # <<>>
    /\ now > 0
    /\ _timestamps = {}

\* C15 (as stated): add(id) for an id that is already in the ledger updates
\* the last-check instant to the time of the call and changes nothing else:
\* not the set, not the persisted id list.
C15_ReAddTouchesLastCheck ==
    [][(lastAdd' # 0 /\ now' = now /\ lastAdd' \in _timestamps) =>
          /\ _last_check' = now
          /\ _timestamps' = _timestamps
          /\ tracker_file'.timestamps = tracker_file.timestamps]_vars

\* ------------------------------------------- the ledger called from threads
\* The calls of has_timestamp, get_timestamps and add_timestamp statement by
\* statement: threads interleave between any two statements, and "with
\* self._lock" admits one thread at a time.
Goto(c, pc) == caller' = [caller EXCEPT ![c] = [@ EXCEPT !.pc = pc]]

\* A thread calls add_timestamp(id), has_timestamp(id) or get_timestamps().
call(c, op, id) ==
    /\ caller[c].pc = "idle"
    /\ caller' = [caller EXCEPT ![c] = [pc |-> "wait", op |-> op, id |-> id]]
    /\ UNCHANGED <<lock, ledgerVars, now, histVars, schedVars, pureVars>>

\* with self._lock: (download_tracker.py:76, 86, 124)
acquire(c) ==
    /\ caller[c].pc = "wait"
    /\ lock = 0
    /\ lock' = c
    /\ Goto(c, "locked")
    /\ UNCHANGED <<ledgerVars, now, histVars, schedVars, pureVars>>

\* has_timestamp and get_timestamps read the set under the lock.
read(c) ==
    /\ caller[c].pc = "locked"
    /\ caller[c].op \in {"has", "list"}
    /\ IF caller[c].op = "has"
       THEN has_timestamp(_timestamps, caller[c].id) \in BOOLEAN
       ELSE Len(get_timestamps(_timestamps)) = Cardinality(_timestamps)
    /\ Goto(c, "release")
    /\ UNCHANGED <<lock, ledgerVars, now, histVars, schedVars, pureVars>>

\* add_timestamp: the presence check, the insert and the clock reading
\* (download_tracker.py:87-92).
add_insert(c) ==
    /\ caller[c].pc = "locked"
    /\ caller[c].op = "add"
    /\ IF caller[c].id \in _timestamps
       THEN /\ Goto(c, "release")
            /\ UNCHANGED <<_timestamps, _last_check>>
       ELSE /\ _timestamps' = _timestamps \cup {caller[c].id}
            /\ _last_check' = now
            /\ Goto(c, "cleanup")
    /\ UNCHANGED <<lock, tracker_file, now, histVars, schedVars, pureVars>>

\* add_timestamp: self.cleanup_old() (download_tracker.py:93).
add_cleanup(c) ==
    /\ caller[c].pc = "cleanup"
    /\ _timestamps' = cleanup_old(_timestamps)
    /\ Goto(c, "open")
    /\ UNCHANGED <<lock, _last_check, tracker_file, now, histVars, schedVars, pureVars>>

\* _save: open(self.tracker_file, "w") truncates the record
\* (download_tracker.py:60).
save_open(c) ==
    /\ caller[c].pc = "open"
    /\ tracker_file' = _save(_timestamps, _last_check, tracker_file, "ewrite")
    /\ Goto(c, "dump")
    /\ UNCHANGED <<lock, _timestamps, _last_check, now, histVars, schedVars, pureVars>>

\* _save: json.dump and the close of the file (download_tracker.py:61).
save_dump(c) ==
    /\ caller[c].pc = "dump"
    /\ tracker_file' = _save(_timestamps, _last_check, tracker_file, "ok")
    /\ Goto(c, "release")
    /\ UNCHANGED <<lock, _timestamps, _last_check, now, histVars, schedVars, pureVars>>

\* The end of the with block, and the return.
release(c) ==
    /\ caller[c].pc = "release"
    /\ lock' = 0
    /\ caller' = [caller EXCEPT ![c] = NoCall]
    /\ UNCHANGED <<ledgerVars, now, histVars, schedVars, pureVars>>

\* A tracker over a fresh cache directory, then called from threads; no write
\* fails.
LockInit ==
    /\ LedgerInit
    /\ tracker_file.state = "ok"
    /\ tracker_file.timestamps = <<>>
    /\ _timestamps = {}

LockNext ==
    \/ \E c \in Callers, id \in LedgerIds : call(c, "add", id)
    \/ \E c \in Callers, id \in LedgerIds : call(c, "has", id)
    \/ \E c \in Callers : call(c, "list", 0)
    \/ \E c \in Callers : acquire(c)
    \/ \E c \in Callers : read(c)
    \/ \E c \in Callers : add_insert(c)
    \/ \E c \in Callers : add_cleanup(c)
    \/ \E c \in Callers : save_open(c)
    \/ \E c \in Callers : save_dump(c)
    \/ \E c \in Callers : release(c)

LockSpec == LockInit /\ [][LockNext]_vars

\* C12 (as stated): whenever add(id) has returned with id in the ledger, the
\* persisted record contains id: the id never exists only in memory.
C12_WriteThrough ==
    (lastAdd # 0 /\ lastAdd \in _timestamps)
        => (tracker_file.state = "ok" /\ lastAdd \in Range(tracker_file.timestamps))

Reading(c) == caller[c].pc = "locked" /\ caller[c].op \in {"has", "list"}
MidAdd(c) == caller[c].pc \in {"cleanup", "open", "dump"}

\* C13 (as stated): an add and its eviction are one atomic step for every
\* observer: no has or list call reads the set while an add is between its
\* insert and the end of its write, and the persisted record is at every
\* instant a whole record of at most K ids, never a partially written one.
C13_AtomicForObservers ==
    /\ \A c, d \in Callers : ~(Reading(c) /\ MidAdd(d))
    /\ tracker_file.state = "ok"
    /\ Len(tracker_file.timestamps) <= max_timestamps

\* _save: open(self.tracker_file, "w") raises; the exception is logged and
\* swallowed (download_tracker.py:63-64), the record stays as it was.
save_open_fails(c) ==
    /\ caller[c].pc = "open"
    /\ tracker_file' = _save(_timestamps, _last_check, tracker_file, "eopen")
    /\ Goto(c, "release")
    /\ UNCHANGED <<lock, _timestamps, _last_check, now, histVars, schedVars, pureVars>>

\* _save: json.dump raises after the record was truncated; logged and
\* swallowed as well.
save_dump_fails(c) ==
    /\ caller[c].pc = "dump"
    /\ tracker_file' = _save(_timestamps, _last_check, tracker_file, "ewrite")
    /\ Goto(c, "release")
    /\ UNCHANGED <<lock, _timestamps, _last_check, now, histVars, schedVars, pureVars>>

\* The tracker called from threads over a disk whose writes may fail.
RaceNext ==
    \/ LockNext
    \/ \E c \in Callers : save_open_fails(c)
    \/ \E c \in Callers : save_dump_fails(c)

RaceSpec == LockInit /\ [][RaceNext]_vars

\* The add call of thread c returns.
AddReturns(c) == caller[c].pc = "release" /\ caller[c].op = "add" /\ caller'[c].pc = "idle"

\* C34 (as stated): when add is called concurrently from two contexts with
\* distinct ids, after both calls return both ids are in the set (subject
\* only to capacity eviction) and the persisted record equals the in-memory
\* set: every add that returns leaves its id in the set unless the set then
\* holds K newer ids, and whenever no call is inside the ledger the record
\* holds exactly the ids of the set.
C34_ConcurrentAddsKept ==
    [][/\ \A c \in Callers :
             AddReturns(c) =>
                 \/ caller[c].id \in _timestamps'
                 \/ /\ Cardinality(_timestamps') = max_timestamps
                    /\ \A x \in _timestamps' : x > caller[c].id
       /\ (\A c \in Callers : caller'[c].pc \in {"idle", "wait"}) =>
             /\ tracker_file'.state = "ok"
             /\ Range(tracker_file'.timestamps) = _timestamps']_vars

\* ------------------------------------------------- cache files and janitor
\* A cache file: the compressed download ("gz") of elevation a's scan id, or
\* its decompressed form ("grib2", the same path without the .gz suffix).
File(a, id, kind) == <<a, id, kind>>

Exists(dir, f) == f \in Range(dir)

\* Writing f creates it or rewrites it: it becomes the newest file of dir.
WriteFile(dir, f) == SelectSeq(dir, LAMBDA x : x # f) \o <<f>>

RemoveFiles(dir, S) == SelectSeq(dir, LAMBDA x : x \notin S)

\* files_to_remove taking the head of the newest-first list: files[:n - max_files].
files_to_remove_newest(dir, max_files) ==
    IF Len(dir) <= max_files THEN {} ELSE Range(SubSeq(dir, max_files + 1, Len(dir)))

\* cleanup_old_files: the files it tries to unlink, files[max_files:] of the
\* listing sorted newest first.
files_to_remove(dir, max_files) ==
    IF Len(dir) <= max_files THEN {} ELSE Range(SubSeq(dir, 1, Len(dir) - max_files))

\* cleanup_old_files leaving its loop at the first unlink that fails: the loop
\* goes from the newest of files_to_remove to the oldest, so the files older
\* than a stuck one stay.
cleanup_old_files_stops_at_failure(dir, max_files, stuck) ==
    LET doomed == files_to_remove(dir, max_files)
        reached == {f \in doomed :
                      \A i, j \in 1..Len(dir) :
                         (dir[i] = f /\ dir[j] \in stuck \cap doomed) => j < i}
    IN  RemoveFiles(dir, reached)

\* cleanup_old_files: the directory it leaves; the unlink of a file in stuck
\* fails, which is logged and skipped.
cleanup_old_files(dir, max_files, stuck) ==
    RemoveFiles(dir, files_to_remove(dir, max_files) \ stuck)

\* cleanup_old_files: the value it returns, 0 (utils.py:165) or
\* len(files_to_remove) (utils.py:175).
cleanup_old_files_returns(dir, max_files) ==
    IF Len(dir) <= max_files THEN 0 ELSE Cardinality(files_to_remove(dir, max_files))

\* ----------------------------------------------------- the timestamp codec
\* A text is a sequence of characters: the digits 0..9 stand for themselves,
\* and the codes below for "-", for an escaped "-" ("%2D"), for the stretches
\* "MRMS_MergedReflectivityQC_dd.dd_", ".grib2", ".gz", "latest", and for any
\* other stretch of text.
DASH == 10
PCT_DASH == 11
PREFIX == 12
GRIB2 == 13
GZ == 14
LATEST == 15
JUNK == 16

IsDigit(c) == c \in 0..9

\* A datetime at second resolution.
datetime(y, mo, d, h, mi, sec) ==
    [year |-> y, month |-> mo, day |-> d, hour |-> h, minute |-> mi, second |-> sec]

\* None
None == [year |-> 0, month |-> 0, day |-> 0, hour |-> 0, minute |-> 0, second |-> 0]

IsLeap(y) == (y % 4 = 0 /\ y % 100 # 0) \/ y % 400 = 0

DaysIn(y, mo) ==
    IF mo = 2 THEN (IF IsLeap(y) THEN 29 ELSE 28)
    ELSE IF mo \in {4, 6, 9, 11} THEN 30 ELSE 31

\* The values the datetime constructor accepts (MINYEAR..MAXYEAR and so on).
ValidDatetime(dt) ==
    /\ dt.year \in 1..9999
    /\ dt.month \in 1..12
    /\ dt.day \in 1..DaysIn(dt.year, dt.month)
    /\ dt.hour \in 0..23
    /\ dt.minute \in 0..59
    /\ dt.second \in 0..59

\* The order of datetimes.
Before(x, y) ==
    LET key(dt) == <<dt.year, dt.month, dt.day, dt.hour, dt.minute, dt.second>>
        kx == key(x)
        ky == key(y)
    IN  \E i \in 1..6 : kx[i] < ky[i] /\ \A j \in 1..(i - 1) : kx[j] = ky[j]

RECURSIVE Decimal(_)
\* str(n)
Decimal(n) == IF n < 10 THEN <<n>> ELSE Decimal(n \div 10) \o <<n % 10>>

RECURSIVE ZeroPad(_, _)
\* The digits of n, zero-padded to width w.
ZeroPad(n, w) == IF Len(Decimal(n)) >= w THEN Decimal(n) ELSE <<0>> \o ZeroPad(n, w - 1)

RECURSIVE Number(_)
\* int(digits)
Number(digits) ==
    IF digits = <<>> THEN 0
    ELSE 10 * Number(SubSeq(digits, 1, Len(digits) - 1)) + digits[Len(digits)]

\* format_timestamp: dt.strftime("%Y%m%d-%H%M%S"). The C library's %Y pads the
\* year to four digits on some platforms and not on others (padded tells).
format_timestamp(dt, padded) ==
    (IF padded THEN ZeroPad(dt.year, 4) ELSE Decimal(dt.year))
        \o ZeroPad(dt.month, 2) \o ZeroPad(dt.day, 2) \o <<DASH>>
        \o ZeroPad(dt.hour, 2) \o ZeroPad(dt.minute, 2) \o ZeroPad(dt.second, 2)

\* The regular expression of parse_mrms_filename matches at position i of the
\* text: the prefix, eight digits, "-", six digits, ".grib2".
MatchesAt(text, i) ==
    /\ i + 16 <= Len(text)
    /\ text[i] = PREFIX
    /\ \A k \in 1..8 : IsDigit(text[i + k])
    /\ text[i + 9] = DASH
    /\ \A k \in 10..15 : IsDigit(text[i + k])
    /\ text[i + 16] = GRIB2

\* strptime building the instant from whatever its fields read.
strptime_unchecked(digits) ==
    datetime(Number(SubSeq(digits, 1, 4)), Number(SubSeq(digits, 5, 6)),
             Number(SubSeq(digits, 7, 8)), Number(SubSeq(digits, 9, 10)),
             Number(SubSeq(digits, 11, 12)), Number(SubSeq(digits, 13, 14)))

\* datetime.strptime(date_str + time_str, "%Y%m%d%H%M%S"), None for ValueError.
strptime(digits) ==
    LET dt == datetime(Number(SubSeq(digits, 1, 4)), Number(SubSeq(digits, 5, 6)),
                       Number(SubSeq(digits, 7, 8)), Number(SubSeq(digits, 9, 10)),
                       Number(SubSeq(digits, 11, 12)), Number(SubSeq(digits, 13, 14)))
    IN  IF ValidDatetime(dt) THEN dt ELSE None

\* parse_mrms_filename reading the date as day, month.
parse_mrms_filename_day_first(filename) ==
    LET at == {i \in 1..Len(filename) : MatchesAt(filename, i)}
    IN  IF at = {} THEN None
        ELSE LET i == CHOOSE k \in at : \A j \in at : k <= j
                 g == SubSeq(filename, i + 1, i + 8) \o SubSeq(filename, i + 10, i + 15)
             IN  strptime(SubSeq(g, 1, 4) \o SubSeq(g, 7, 8) \o SubSeq(g, 5, 6)
                           \o SubSeq(g, 9, 14))

\* parse_mrms_filename: re.search takes the leftmost match.
parse_mrms_filename(filename) ==
    LET at == {i \in 1..Len(filename) : MatchesAt(filename, i)}
    IN  IF at = {} THEN None
        ELSE LET i == CHOOSE k \in at : \A j \in at : k <= j
             IN  strptime(SubSeq(filename, i + 1, i + 8)
                           \o SubSeq(filename, i + 10, i + 15))

\* The name the archive gives the compressed scan of an instant:
\* "MRMS_MergedReflectivityQC_00.50_20251107-200036.grib2.gz".
ScanName(stamp) == <<PREFIX>> \o stamp \o <<GRIB2, GZ>>

\* ------------------------------------------------------------- the scraper
\* The entries of elevation a's remote listing.
Listing(a) == 1..remote[a]

\* MRMSScraper.fetch_file_list: the entries of one listing, newest first.
fetch_file_list(listing) == SortDesc(listing)

\* ".grib2.gz" in href
HasGribGz(href) == \E i \in 1..(Len(href) - 1) : href[i] = GRIB2 /\ href[i + 1] = GZ

\* "latest" in href
HasLatest(href) == \E i \in 1..Len(href) : href[i] = LATEST

\* urllib.parse.unquote: every escape becomes the character it stands for.
unquote(href) == [i \in 1..Len(href) |-> IF href[i] = PCT_DASH THEN DASH ELSE href[i]]

RECURSIVE sort_newest_first(_)
\* files.sort(key=lambda x: x["timestamp"], reverse=True): a stable sort, so
\* an entry goes behind the entries that are not older than it.
sort_newest_first(files) ==
    IF files = <<>> THEN <<>>
    ELSE LET sorted == sort_newest_first(SubSeq(files, 1, Len(files) - 1))
             e == files[Len(files)]
             ahead == SelectSeq(sorted, LAMBDA x : ~Before(x.timestamp, e.timestamp))
             behind == SelectSeq(sorted, LAMBDA x : Before(x.timestamp, e.timestamp))
         IN  ahead \o <<e>> \o behind

RECURSIVE parse_listing_keeps_unparsed(_)
\* The listing loop without its "if timestamp:" test.
parse_listing_keeps_unparsed(links) ==
    IF links = <<>> THEN <<>>
    ELSE LET href == links[Len(links)]
             rest == parse_listing_keeps_unparsed(SubSeq(links, 1, Len(links) - 1))
         IN  IF HasGribGz(href) /\ ~HasLatest(href)
             THEN rest \o <<[filename |-> unquote(href), href |-> href,
                             timestamp |-> parse_mrms_filename(unquote(href))]>>
             ELSE rest

RECURSIVE parse_listing(_)
\* The loop of scraper.py:92-105 over the page's links, in page order: the
\* entries it appends to files.
parse_listing(links) ==
    IF links = <<>> THEN <<>>
    ELSE LET href == links[Len(links)]
             rest == parse_listing(SubSeq(links, 1, Len(links) - 1))
             filename == unquote(href)
             timestamp == parse_mrms_filename(filename)
         IN  IF HasGribGz(href) /\ ~HasLatest(href) /\ timestamp # None
             THEN rest \o <<[filename |-> filename, href |-> href,
                             timestamp |-> timestamp]>>
             ELSE rest

\* MRMSScraper.fetch_file_list from the links of the page it was served
\* (scraper.py:88-111): fetch_file_list above is this over a page of scan names.
fetch_file_list_of(links) == sort_newest_first(parse_listing(links))

\* gather() without return_exceptions: one failed fetch loses every listing.
fetch_file_list_multi_elevation_all_or_nothing(failed) ==
    [a \in Angles |-> IF failed # {} THEN <<>> ELSE fetch_file_list(Listing(a))]

\* MRMSScraper.fetch_file_list_multi_elevation: a failed fetch gives [].
fetch_file_list_multi_elevation(failed) ==
    [a \in Angles |-> IF a \in failed THEN <<>> ELSE fetch_file_list(Listing(a))]

Abs(x) == IF x < 0 THEN -x ELSE x

RECURSIVE closest_from(_, _, _, _)
\* The loop of scraper.py:263-267 from entry i on, matching_file being m
\* (0: None): an entry replaces m when its distance is strictly smaller.
closest_from(files, target, i, m) ==
    IF i > Len(files) THEN m
    ELSE closest_from(files, target, i + 1,
                      IF m = 0 \/ Abs(files[i] - target) < Abs(m - target)
                      THEN files[i] ELSE m)

\* The downloader taking the newest entry of the listing, whatever the target.
closest_newest(files, target) == IF files = <<>> THEN 0 ELSE files[1]

\* scraper.py:259-267: the entry of the newest-first list the loop ends with
\* (0: the list is empty).
closest(files, target) == closest_from(files, target, 1, 0)

\* The outcomes of one download: the body arrives whole, the response has a
\* non-success status (raise_for_status raises before the output is opened),
\* the connection drops after open(output_path, "wb") and some chunks.
DownloadOutcomes == {"ok", "estatus", "edrop"}

\* download_file leaving what it wrote when the transfer fails.
download_file_keeps_partial(dir, f, outcome) ==
    IF outcome = "estatus" THEN dir ELSE WriteFile(dir, f)

\* MRMSScraper.download_file: the directory it leaves. On any exception the
\* output path is unlinked if it exists (scraper.py:171-172), and the
\* exception is raised again.
download_file(dir, f, outcome) ==
    CASE outcome = "ok"      -> WriteFile(dir, f)
      [] outcome = "estatus" -> RemoveFiles(dir, {f})
      [] outcome = "edrop"   -> RemoveFiles(WriteFile(dir, f), {f})

\* The outcomes of decompress_grib2: done, failed before the output was
\* created, failed after open(output_path, "wb") created it.
DecOutcomes == {"ok", "eopen", "ewrite"}

\* decompress_grib2 that writes no output file.
Decompressed_nothing(dir, f, dec) == dir

\* decompress_grib2: the directory it leaves when it is to write f.
Decompressed(dir, f, dec) == IF dec = "eopen" THEN dir ELSE WriteFile(dir, f)

\* One pass of the loop of download_latest_multi_elevation (scraper.py:253-300)
\* for elevation a with matching file m: the directory it leaves, whether the
\* elevation entered the result, whether an exception left the downloader.
\* failed counts the failures the pass met.
process_angle(dir, a, m, dl, dec) ==
    LET gz == File(a, m, "gz")
        grib2 == File(a, m, "grib2")
        bad == IF dec = "ok" THEN 0 ELSE 1
    IN  IF m = 0
        THEN [dir |-> dir, landed |-> FALSE, raised |-> FALSE, failed |-> 0]
        ELSE IF Exists(dir, gz)
        THEN IF Exists(dir, grib2)
             THEN [dir |-> dir, landed |-> TRUE, raised |-> FALSE, failed |-> 0]
             ELSE [dir |-> Decompressed(dir, grib2, dec),
                   landed |-> dec = "ok", raised |-> dec # "ok", failed |-> bad]
        ELSE IF dl # "ok"
        THEN [dir |-> download_file(dir, gz, dl),
              landed |-> FALSE, raised |-> FALSE, failed |-> 1]
        ELSE [dir |-> Decompressed(download_file(dir, gz, dl), grib2, dec),
              landed |-> dec = "ok", raised |-> FALSE, failed |-> bad]

\* The incomplete files one pass of the loop leaves, p being those before it.
\* decompress_grib2 opens its output path for writing and copies into it
\* (utils.py:96-98): done, the file is whole; failed in the copy, what was
\* written stays at the path (nothing removes it). download_file unlinks what
\* a failed transfer wrote (scraper.py:171-172), so a compressed file the loop
\* leaves is whole.
partial_after(p, dir, a, m, dl, dec) ==
    LET gz == File(a, m, "gz")
        grib2 == File(a, m, "grib2")
        left == CASE dec = "ok"     -> p \ {grib2}
                  [] dec = "eopen"  -> p
                  [] dec = "ewrite" -> p \cup {grib2}
    IN  IF m = 0 THEN p
        ELSE IF Exists(dir, gz)
        THEN IF Exists(dir, grib2) THEN p ELSE left
        ELSE IF dl # "ok" THEN p
        ELSE left

\* The files of p that the directories d still hold.
Held(p, d) == {f \in p : \E a \in Angles : Exists(d[a], f)}

\* scraper.py:304-307: one janitor pass per elevation of the result.
cleanup_downloaded(d, downloaded, stuck) ==
    [a \in Angles |-> IF a \in downloaded
                      THEN cleanup_old_files(d[a], max_cache_size, stuck)
                      ELSE d[a]]

\* -------------------------------------------------------------- the merger
\* Reflectivity values are whole dBZ; NaN is np.nan, the missing value.
NaN == 999
min_dbz == -30
max_dbz == 80

\* A decoded file: whether cfgrib can open it, and its reflectivity array (a
\* grid is modelled by the sequence of its cells, its shape by the length).
Decoded(reflectivity) == [decodes |-> TRUE, reflectivity |-> reflectivity]
Undecodable == [decodes |-> FALSE, reflectivity |-> <<>>]

\* Quality control with the bounds themselves rejected.
apply_quality_control_open(data, min_value, max_value) ==
    [i \in 1..Len(data) |->
        IF data[i] # NaN /\ (data[i] <= min_value \/ data[i] >= max_value)
        THEN NaN ELSE data[i]]

\* GRIB2Processor.apply_quality_control: a comparison with NaN is false, so a
\* missing cell stays missing.
apply_quality_control(data, min_value, max_value) ==
    [i \in 1..Len(data) |->
        IF data[i] # NaN /\ (data[i] < min_value \/ data[i] > max_value)
        THEN NaN ELSE data[i]]

\* The outcome of a merge: the composite, or the exception that left it.
Composite(rala) == [error |-> "none", rala |-> rala]
Raised(error) == [error |-> error, rala |-> <<>>]

\* NumPy broadcasting of two one-dimensional shapes.
Broadcastable(m, n) == m = n \/ m = 1 \/ n = 1
BroadcastLen(m, n) == IF m > n THEN m ELSE n
At(a, i) == IF Len(a) = 1 THEN a[1] ELSE a[i]

\* The fill step writing the higher layer wherever that layer is valid.
fill_overwrites(rala, rala_data) ==
    IF Len(rala) # Len(rala_data) THEN Raised("shape")
    ELSE Composite([i \in 1..Len(rala) |->
                      IF rala_data[i] # NaN THEN rala_data[i] ELSE rala[i]])

\* rala.py:253-260: the composite after the fill from one more layer.
\* missing_mask & valid_mask raises ValueError for shapes that do not
\* broadcast; indexing an array with a mask of another shape raises IndexError.
fill(rala, rala_data) ==
    LET any_missing == \E i \in 1..Len(rala) : rala[i] = NaN
        n == BroadcastLen(Len(rala), Len(rala_data))
        fill_mask == [i \in 1..n |-> At(rala, i) = NaN /\ At(rala_data, i) # NaN]
    IN  IF ~any_missing THEN Composite(rala)
        ELSE IF ~Broadcastable(Len(rala), Len(rala_data)) THEN Raised("shape")
        ELSE IF \A i \in 1..n : ~fill_mask[i] THEN Composite(rala)
        ELSE IF Len(rala) # n \/ Len(rala_data) # n THEN Raised("shape")
        ELSE Composite([i \in 1..n |-> IF fill_mask[i] THEN rala_data[i] ELSE rala[i]])

\* The merger taking the layers in the order the mapping lists them.
sorted_paths_as_given(items) == [k \in 1..Len(items) |-> items[k][2]]

\* rala.py:185-186: the files of the mapping's items, by ascending elevation.
sorted_paths(items) ==
    [k \in 1..Len(items) |->
        LET i == CHOOSE i \in 1..Len(items) :
                    Cardinality({j \in 1..Len(items) : items[j][1] < items[i][1]}) = k - 1
        IN  items[i][2]]

RECURSIVE merge_from(_, _, _)
\* The loop of rala.py:214-264 from file i on, rala being the composite so far.
merge_from(paths, i, rala) ==
    IF i > Len(paths) THEN Composite(rala)
    ELSE IF ~paths[i].decodes THEN Raised("decode")
    ELSE LET rala_data == apply_quality_control(paths[i].reflectivity, min_dbz, max_dbz)
         IN  IF i = 1 THEN merge_from(paths, 2, rala_data)
             ELSE LET filled == fill(rala, rala_data)
                  IN  IF filled.error # "none" THEN filled
                      ELSE merge_from(paths, i + 1, filled.rala)

\* RALAGenerator.generate_rala on a mapping whose items are listed in the given
\* order: ValueError on no file, generate_rala_single on one (rala.py:198-204,
\* the same decode and quality control), the loop otherwise.
generate_rala(items) ==
    IF items = <<>> THEN Raised("empty") ELSE merge_from(sorted_paths(items), 1, <<>>)

\* ------------------------------------------- the scraper's calls on their own
\* The scans a listing may hold when it is looked at on its own: listings
\* with gaps, and targets that are on no listing.
ScanIds == 1..(MaxId + 2)

\* The files of one cache directory, and the directories of at most two of them.
CacheFiles == {File(LowestAngle, id, kind) : id \in Ids, kind \in {"gz", "grib2"}}
CacheDirs ==
    {<<>>} \cup {<<x>> : x \in CacheFiles}
           \cup {d \in CacheFiles \X CacheFiles : d[1] # d[2]}

\* The directories the janitor is given on its own: up to one file more than
\* the cache keeps, in every order of modification.
JanitorDirs ==
    {d \in UNION {[1..n -> CacheFiles] : n \in 0..(max_cache_size + 1)} :
        \A i, j \in 1..Len(d) : i # j => d[i] # d[j]}

\* The janitor's calls: a directory, a limit, the files whose unlink fails.
JanitorCalls ==
    UNION {{[op |-> "cleanup_old_files", dir |-> d, max_files |-> m, stuck |-> S] :
                S \in SUBSET files_to_remove(d, m)} :
             d \in JanitorDirs, m \in 0..max_cache_size}

\* The arrays of the given shapes over the given values.
Arrays(values, shapes) == UNION {[1..k -> values] : k \in shapes}

\* The files handed to the merger: grids of up to three cells holding a missing
\* value, both bounds of the valid range and a value above it, and a file that
\* does not decode; for calls with many layers, grids of one cell.
MergeValues == {NaN, min_dbz, max_dbz, max_dbz + 1}
GridFiles == {Decoded(a) : a \in Arrays(MergeValues, {1, 2, 3})} \cup {Undecodable}
CellFiles == {Decoded(a) : a \in Arrays(MergeValues, {1})} \cup {Undecodable}

\* A call of the merger: the mapping from the elevations 1..n to their files.
MergeCalls ==
    {[op |-> "generate_rala", files |-> f] :
        f \in UNION {[1..n -> GridFiles] : n \in 0..2}
               \cup UNION {[1..n -> CellFiles] : n \in 3..MaxLayers}}

\* A call of quality control: an array that also holds a value below the range.
QCCalls ==
    {[op |-> "apply_quality_control", data |-> a] :
        a \in Arrays(MergeValues \cup {min_dbz - 1}, {1, 2})}

\* The orders in which a mapping of n items can list them.
Orders(n) == {p \in [1..n -> 1..n] : \A i, j \in 1..n : i # j => p[i] # p[j]}
Items(files, p) == [k \in 1..Len(p) |-> <<p[k], files[p[k]]>>]
Ascending(n) == [k \in 1..n |-> k]

\* The name stamp of scan id: the scans are two minutes apart.
StampOf(id) == format_timestamp(datetime(2025, 11, 7, 20, 2 * id, 36), TRUE)

\* The links of a directory-listing page: the compressed scans, one of them
\* with its "-" escaped, a scan whose name carries no date of the calendar, a
\* decompressed scan, the "latest" alias and a link to somewhere else.
Hrefs ==
    {ScanName(StampOf(id)) : id \in Ids}
    \cup {[i \in 1..18 |-> IF ScanName(StampOf(1))[i] = DASH THEN PCT_DASH
                                                              ELSE ScanName(StampOf(1))[i]],
          ScanName(<<2, 0, 2, 5, 1, 3, 9, 9, DASH, 2, 5, 0, 0, 7, 0>>),
          <<PREFIX>> \o StampOf(1) \o <<GRIB2>>,
          <<JUNK, LATEST, GRIB2, GZ>>,
          <<JUNK>>}

Pages == UNION {[1..n -> Hrefs] : n \in 0..MaxLinks}

\* Instants to format and parse: a three-digit year, a leap year, month ends,
\* and the instants of tests/test_utils.py.
Datetimes ==
    {dt \in [year : {999, 2024, 2025}, month : {1, 2, 11}, day : {5, 7, 29, 31},
             hour : {0, 20, 23}, minute : {0, 59}, second : {9, 36}] :
        ValidDatetime(dt)}

\* The digits of file names, of instants and of what is no instant: year 0,
\* month 0 and 13, the 31st of November, day 99, hour 25, minute 70, second 70.
Stamps ==
    {ZeroPad(y, 4) \o ZeroPad(mo, 2) \o ZeroPad(d, 2) \o <<DASH>>
        \o ZeroPad(h, 2) \o ZeroPad(mi, 2) \o ZeroPad(sec, 2) :
        y \in {0, 2025}, mo \in {0, 11, 13}, d \in {7, 31, 99},
        h \in {20, 25}, mi \in {0, 70}, sec \in {36, 70}}

\* The file names given to parse_mrms_filename: a stamp in the name of a
\* compressed scan, of a decompressed scan, inside a path, and in names the
\* pattern does not match (no prefix, no ".grib2", an escaped "-", no stamp).
FileNames ==
    UNION {{ScanName(s),
            <<PREFIX>> \o s \o <<GRIB2>>,
            <<JUNK>> \o ScanName(s),
            s,
            <<PREFIX>> \o s,
            <<PREFIX>> \o SubSeq(s, 1, 8) \o <<PCT_DASH>> \o SubSeq(s, 10, 15) \o <<GRIB2>>} :
           s \in Stamps}
    \cup {<<>>, <<JUNK>>, <<PREFIX, GRIB2>>}

\* One call: the selection loop over a listing, download_file into a
\* directory, fetch_file_list_multi_elevation with some fetches failing, an
\* instant formatted and parsed back, a listing page parsed.
Calls ==
    {[op |-> "closest", files |-> SortDesc(S), target |-> t] :
        S \in SUBSET ScanIds, t \in ScanIds}
    \cup {[op |-> "download_file", dir |-> d, f |-> File(LowestAngle, id, "gz"),
           outcome |-> o] : d \in CacheDirs, id \in Ids, o \in DownloadOutcomes}
    \cup {[op |-> "fetch_multi", failed |-> F] : F \in SUBSET Angles}
    \cup {[op |-> "round_trip", ts |-> dt, padded |-> b] :
            dt \in Datetimes, b \in BOOLEAN}
    \cup {[op |-> "fetch_file_list", links |-> page] : page \in Pages}
    \cup {[op |-> "parse_mrms_filename", filename |-> n] : n \in FileNames}
    \cup JanitorCalls
    \cup MergeCalls
    \cup QCCalls

PureInit ==
    /\ scheduler = "none"
    /\ _is_running = FALSE
    /\ task = [t \in Tasks |-> NoTask]
    /\ last_outcome = "none"
    /\ last_result = {}
    /\ faults = 0
    /\ lock = 0
    /\ caller = [c \in Callers |-> NoCall]
    /\ input \in Calls
    /\ output = NoOutput
    /\ IF input.op = "fetch_multi"
       THEN remote \in [Angles -> 0..MaxId]
       ELSE remote = [a \in Angles |-> 0]
    /\ dirs = [a \in Angles |-> <<>>]
    /\ partial = {}
    /\ now = 0
    /\ lastAdd = 0
    /\ repeated = FALSE
    /\ added = {}
    /\ loaded = "missing"
    /\ LET st == _load(MissingFile, 0, "ok")
       IN  /\ _timestamps = st[1]
           /\ _last_check = st[2]
           /\ tracker_file = st[3]

Returns(value) ==
    /\ ~output.done
    /\ output' = value
    /\ UNCHANGED <<input, threadVars, ledgerVars, now, histVars, schedVars>>

apply_closest ==
    /\ input.op = "closest"
    /\ Returns([done |-> TRUE, m |-> closest(input.files, input.target)])

apply_download_file ==
    /\ input.op = "download_file"
    /\ Returns([done |-> TRUE, dir |-> download_file(input.dir, input.f, input.outcome),
                raised |-> input.outcome # "ok"])

apply_fetch_multi ==
    /\ input.op = "fetch_multi"
    /\ Returns([done |-> TRUE, lists |-> fetch_file_list_multi_elevation(input.failed)])

\* format_timestamp(ts), then parse_mrms_filename of that string and of the
\* archive's file name that carries it.
apply_round_trip ==
    /\ input.op = "round_trip"
    /\ LET text == format_timestamp(input.ts, input.padded)
       IN  Returns([done |-> TRUE, text |-> text,
                    parsed |-> parse_mrms_filename(text),
                    of_name |-> parse_mrms_filename(ScanName(text))])

apply_parse_mrms_filename ==
    /\ input.op = "parse_mrms_filename"
    /\ Returns([done |-> TRUE, parsed |-> parse_mrms_filename(input.filename)])

apply_fetch_file_list ==
    /\ input.op = "fetch_file_list"
    /\ Returns([done |-> TRUE, files |-> fetch_file_list_of(input.links)])

apply_cleanup_old_files ==
    /\ input.op = "cleanup_old_files"
    /\ Returns([done |-> TRUE,
                dir |-> cleanup_old_files(input.dir, input.max_files, input.stuck),
                returned |-> cleanup_old_files_returns(input.dir, input.max_files)])

\* generate_rala on the mapping, once for every order of its items.
apply_generate_rala ==
    /\ input.op = "generate_rala"
    /\ Returns([done |-> TRUE,
                by_order |-> [p \in Orders(Len(input.files)) |->
                                 generate_rala(Items(input.files, p))]])

apply_apply_quality_control ==
    /\ input.op = "apply_quality_control"
    /\ Returns([done |-> TRUE,
                qc_data |-> apply_quality_control(input.data, min_dbz, max_dbz)])

PureNext ==
    \/ apply_generate_rala
    \/ apply_apply_quality_control
    \/ apply_cleanup_old_files
    \/ apply_fetch_file_list
    \/ apply_closest
    \/ apply_download_file
    \/ apply_fetch_multi
    \/ apply_round_trip
    \/ apply_parse_mrms_filename

PureSpec == PureInit /\ [][PureNext]_vars

\* C16: for an elevation whose listing is non-empty, the entry the downloader
\* selects is on the listing, and no entry of the listing is closer in time to
\* the target than it.
C16_SelectsClosest ==
    (input.op = "closest" /\ output.done /\ input.files # <<>>) =>
        /\ output.m \in Range(input.files)
        /\ \A j \in Range(input.files) :
               Abs(output.m - input.target) <= Abs(j - input.target)

\* C16 witness: the selection ran on a listing of several entries that does
\* not hold the target, and chose an entry other than the newest.
C16_Witness ==
    /\ input.op = "closest"
    /\ output.done
    /\ Len(input.files) >= 2
    /\ input.target \notin Range(input.files)
    /\ output.m # input.files[1]
    /\ output.m \in Range(input.files)

\* C19: after a download that fails, on a non-success status or on a
\* connection dropping after bytes were written, no file exists at the
\* download's output path.
C19_NoPartialFile ==
    (input.op = "download_file" /\ output.done /\ input.outcome # "ok") =>
        \A i \in 1..Len(output.dir) : output.dir[i] # input.f

\* C19 witness: a download into a directory of other files dropped mid-stream
\* and raised; the other files are as they were.
C19_Witness ==
    /\ input.op = "download_file"
    /\ output.done
    /\ input.outcome = "edrop"
    /\ output.raised
    /\ input.dir # <<>>
    /\ output.dir = input.dir

\* C20: in the multi-angle listing fetch a failure for one elevation yields an
\* empty listing for that elevation only; every other elevation's listing is
\* the one its own fetch returns, the scans of its remote listing newest first.
C20_FetchFailureIsolated ==
    (input.op = "fetch_multi" /\ output.done) =>
        \A a \in Angles :
            IF a \in input.failed
            THEN output.lists[a] = <<>>
            ELSE /\ Range(output.lists[a]) = 1..remote[a]
                 /\ Len(output.lists[a]) = remote[a]
                 /\ \A i \in 1..(remote[a] - 1) : output.lists[a][i] > output.lists[a][i + 1]

\* C20 witness: one elevation's fetch failed and another's returned entries.
C20_Witness ==
    /\ input.op = "fetch_multi"
    /\ output.done
    /\ \E a, b \in Angles :
          /\ a \in input.failed
          /\ remote[a] > 0
          /\ output.lists[a] = <<>>
          /\ b \notin input.failed
          /\ Len(output.lists[b]) > 1

\* A name of the compressed-scan convention, and the instant it names:
\* prefix and angle, eight digits, "-", six digits, ".grib2", ".gz".
Conventional(name) ==
    /\ Len(name) = 18
    /\ name[1] = PREFIX
    /\ \A k \in (2..9) \cup (11..16) : name[k] \in 0..9
    /\ name[10] = DASH
    /\ name[17] = GRIB2
    /\ name[18] = GZ

Named(name) ==
    datetime(1000 * name[2] + 100 * name[3] + 10 * name[4] + name[5],
             10 * name[6] + name[7], 10 * name[8] + name[9],
             10 * name[11] + name[12], 10 * name[13] + name[14],
             10 * name[15] + name[16])

\* The links of a page that the listing is to show: those whose decoded name
\* is of the convention and names an instant of the calendar.
Listed(links) ==
    {i \in 1..Len(links) :
        LET name == [k \in 1..Len(links[i]) |->
                        IF links[i][k] = PCT_DASH THEN DASH ELSE links[i][k]]
        IN  Conventional(name) /\ ValidDatetime(Named(name))}

\* C21: the listing returned for an elevation holds exactly the remote entries
\* whose name is of the compressed-scan convention and whose identifier
\* parses, each as often as the page shows it and with the instant its name
\* carries, ordered newest first; an entry whose identifier does not parse
\* never appears.
C21_ListingExact ==
    (input.op = "fetch_file_list" /\ output.done) =>
        LET files == output.files
            links == input.links
        IN  /\ \A i \in 1..Len(files) :
                   /\ Conventional(files[i].filename)
                   /\ ValidDatetime(files[i].timestamp)
                   /\ files[i].timestamp = Named(files[i].filename)
            /\ \A h \in Hrefs :
                   Cardinality({i \in 1..Len(files) : files[i].href = h})
                     = Cardinality({i \in Listed(links) : links[i] = h})
            /\ \A i \in 1..Len(files), j \in 1..Len(files) :
                   i < j => ~Before(files[i].timestamp, files[j].timestamp)

\* C21 witness: a page that shows an older scan before a newer one, and a
\* name whose date does not parse, was turned into a listing of the two scans.
C21_Witness ==
    /\ input.op = "fetch_file_list"
    /\ output.done
    /\ Len(input.links) = 3
    /\ Len(output.files) = 2
    /\ \E i \in 1..3 : HasGribGz(input.links[i]) /\ ~HasLatest(input.links[i])
                         /\ i \notin Listed(input.links)
    /\ output.files[1].href # output.files[2].href
    /\ \E i, j \in 1..3 : /\ i < j
                           /\ input.links[i] = output.files[2].href
                           /\ input.links[j] = output.files[1].href

\* The n newest files of a directory, oldest first.
NewestFiles(dir, n) == SubSeq(dir, IF Len(dir) > n THEN Len(dir) - n + 1 ELSE 1, Len(dir))

\* C22 (as stated): after a janitor pass the directory holds at most max_files
\* files, the most recently modified ones of those it held; when it held at
\* most max_files nothing is deleted.
C22_KeepsNewest ==
    (input.op = "cleanup_old_files" /\ output.done) =>
        /\ Len(output.dir) <= input.max_files
        /\ output.dir = NewestFiles(input.dir, input.max_files)

\* C22 (amended): after a janitor pass the directory holds the max_files most
\* recently modified files it held and, of the older ones, exactly those
\* whose deletion failed; when it held at most max_files nothing is deleted.
C22_KeepsNewestAndUndeletable ==
    (input.op = "cleanup_old_files" /\ output.done) =>
        LET kept == Range(NewestFiles(input.dir, input.max_files)) \cup input.stuck
        IN  /\ output.dir = SelectSeq(input.dir, LAMBDA f : f \in kept)
            /\ Len(output.dir) <= input.max_files + Cardinality(input.stuck)
            /\ Len(input.dir) <= input.max_files => output.dir = input.dir

\* C22 witness: a pass over a directory two files over the limit deleted its
\* oldest file and could not delete the next.
C22_Witness ==
    /\ input.op = "cleanup_old_files"
    /\ output.done
    /\ input.max_files > 0
    /\ Len(input.dir) = input.max_files + 2
    /\ input.stuck = {input.dir[2]}
    /\ Len(output.dir) = input.max_files + 1
    /\ output.dir[1] = input.dir[2]

\* C23 (as stated): the value enforce returns is the number of files the pass
\* evicted: the files present before the pass and absent after it.
C23_ReturnsEvicted ==
    (input.op = "cleanup_old_files" /\ output.done) =>
        output.returned
          = Cardinality({i \in 1..Len(input.dir) :
                           \A j \in 1..Len(output.dir) : output.dir[j] # input.dir[i]})

\* C24: when the deletion of a file fails during a janitor pass, the pass
\* still deletes every other file beyond position max_files, and ends.
C24_DeletionFailureIsolated ==
    (input.op = "cleanup_old_files" /\ output.done /\ input.stuck # {}) =>
        \A i \in 1..(Len(input.dir) - input.max_files) :
            input.dir[i] \notin input.stuck =>
                \A j \in 1..Len(output.dir) : output.dir[j] # input.dir[i]

\* C24 witness: the first unlink of a pass failed and the two after it were
\* carried out.
C24_Witness ==
    /\ input.op = "cleanup_old_files"
    /\ output.done
    /\ Len(input.dir) = input.max_files + 3
    /\ input.stuck = {input.dir[3]}
    /\ Len(output.dir) = input.max_files + 1
    /\ output.dir[1] = input.dir[3]

\* A value that quality control lets through.
InRange(v) == v # NaN /\ v >= min_dbz /\ v <= max_dbz

\* The files of a mapping all decode to grids of one shape.
CoRegistered(files, elevations) ==
    /\ \A e \in elevations : files[e].decodes
    /\ \A e, f \in elevations : Len(files[e].reflectivity) = Len(files[f].reflectivity)

\* The value at cell c of the lowest of the elevations whose layer holds a
\* value in range there, NaN when none does.
LowestValid(files, elevations, c) ==
    LET good == {e \in elevations : InRange(files[e].reflectivity[c])}
    IN  IF good = {} THEN NaN
        ELSE files[CHOOSE e \in good : \A f \in good : e <= f].reflectivity[c]

\* C25: for any set of co-registered layers keyed by elevation, each cell of
\* the composite holds the value of the lowest elevation whose quality-
\* controlled layer is not missing there, and is missing exactly when every
\* layer is missing there.
C25_LowestValidWins ==
    (/\ input.op = "generate_rala"
     /\ output.done
     /\ Len(input.files) >= 1
     /\ CoRegistered(input.files, DOMAIN input.files)) =>
        \A p \in DOMAIN output.by_order :
            LET r == output.by_order[p]
            IN  /\ r.error = "none"
                /\ Len(r.rala) = Len(input.files[1].reflectivity)
                /\ \A c \in 1..Len(r.rala) :
                       r.rala[c] = LowestValid(input.files, DOMAIN input.files, c)

\* C25 witness: three layers, the lowest missing at a cell where the two above
\* hold different values: the composite holds the value of the middle one.
C25_Witness ==
    /\ input.op = "generate_rala"
    /\ output.done
    /\ Len(input.files) = 3
    /\ CoRegistered(input.files, 1..3)
    /\ input.files[1].reflectivity[1] = NaN
    /\ input.files[2].reflectivity[1] = max_dbz
    /\ input.files[3].reflectivity[1] = min_dbz
    /\ output.by_order[<<1, 2, 3>>].rala[1] = max_dbz

\* C26: the composite does not depend on the order in which the layers are
\* supplied: every order of the same mapping gives the same outcome.
C26_OrderIndependent ==
    (input.op = "generate_rala" /\ output.done) =>
        \A p, q \in DOMAIN output.by_order : output.by_order[p] = output.by_order[q]

\* C26 witness: three layers supplied highest first and in four other orders
\* gave the composite that holds the lowest layer's value.
C26_Witness ==
    /\ input.op = "generate_rala"
    /\ output.done
    /\ Len(input.files) = 3
    /\ Cardinality(DOMAIN output.by_order) = 6
    /\ input.files[1].decodes /\ input.files[2].decodes /\ input.files[3].decodes
    /\ input.files[1].reflectivity[1] = min_dbz
    /\ input.files[3].reflectivity[1] = max_dbz
    /\ output.by_order[<<3, 2, 1>>] = [error |-> "none", rala |-> <<min_dbz>>]

\* C27 (as stated): if any input layer's shape differs from the shape of the
\* lowest layer, the merge fails with an error and returns no composite,
\* whatever the layers hold.
C27_ShapeMismatchFails ==
    (/\ input.op = "generate_rala"
     /\ output.done
     /\ \A e \in DOMAIN input.files : input.files[e].decodes
     /\ \E e \in DOMAIN input.files :
           Len(input.files[e].reflectivity) # Len(input.files[1].reflectivity)) =>
        \A p \in DOMAIN output.by_order : output.by_order[p].error # "none"

\* C28 (as stated): when decoding one elevation's file fails, the merger
\* leaves that elevation out and builds the composite from the others.
C28_DecodeFailureSkipsElevation ==
    (/\ input.op = "generate_rala"
     /\ output.done
     /\ \E e \in DOMAIN input.files : ~input.files[e].decodes
     /\ \E e \in DOMAIN input.files : input.files[e].decodes) =>
        LET rest == {e \in DOMAIN input.files : input.files[e].decodes}
        IN  \A p \in DOMAIN output.by_order :
               /\ output.by_order[p].error = "none"
               /\ CoRegistered(input.files, rest) =>
                      \A c \in 1..Len(output.by_order[p].rala) :
                          output.by_order[p].rala[c] = LowestValid(input.files, rest, c)

\* C29: quality control maps a raw value v to missing if and only if v < min
\* or v > max, so both bounds stay valid and every other value is kept as it
\* is; it is applied to every layer before the merge, so every value of a
\* composite that is not missing lies within [min, max].
C29_QualityControl ==
    /\ (input.op = "apply_quality_control" /\ output.done) =>
          /\ Len(output.qc_data) = Len(input.data)
          /\ \A i \in 1..Len(input.data) :
                 IF input.data[i] = NaN \/ input.data[i] < min_dbz \/ input.data[i] > max_dbz
                 THEN output.qc_data[i] = NaN
                 ELSE output.qc_data[i] = input.data[i]
    /\ (input.op = "generate_rala" /\ output.done) =>
          \A p \in DOMAIN output.by_order :
             \A c \in 1..Len(output.by_order[p].rala) :
                \/ output.by_order[p].rala[c] = NaN
                \/ /\ output.by_order[p].rala[c] >= min_dbz
                   /\ output.by_order[p].rala[c] <= max_dbz

\* C29 witness: quality control kept the lower bound and rejected the value
\* one above the upper bound.
C29_Witness ==
    /\ input.op = "apply_quality_control"
    /\ output.done
    /\ input.data = <<min_dbz, max_dbz + 1>>
    /\ output.qc_data = <<min_dbz, NaN>>

\* C30 (as stated): for every valid timestamp ts at second resolution,
\* parse_mrms_filename(format_timestamp(ts)) equals ts.
C30_RoundTrip ==
    (input.op = "round_trip" /\ output.done) => output.parsed = input.ts

\* C30 (amended): for every valid timestamp ts with a four-digit year,
\* parse_mrms_filename of the archive file name that carries
\* format_timestamp(ts) equals ts.
C30_RoundTripInFileName ==
    (input.op = "round_trip" /\ output.done /\ input.ts.year >= 1000) =>
        output.of_name = input.ts

\* C30 witness: an instant of the last day of February of a leap year was
\* formatted to fifteen characters and parsed back from a file name.
C30_Witness ==
    /\ input.op = "round_trip"
    /\ output.done
    /\ input.ts.month = 2
    /\ input.ts.day = 29
    /\ input.ts.minute = 59
    /\ Len(output.text) = 15
    /\ output.of_name = input.ts

\* The places of a text where the naming pattern is found: the prefix, eight
\* digits, "-", six digits, ".grib2".
PatternAt(text) ==
    {i \in 1..(Len(text) - 16) :
        /\ text[i] = PREFIX
        /\ \A k \in (1..8) \cup (10..15) : text[i + k] \in 0..9
        /\ text[i + 9] = DASH
        /\ text[i + 16] = GRIB2}

\* C31: parse returns none, and does return, for every file name that does
\* not match the naming pattern and for every matching file name whose date
\* or time digits are no instant of the calendar (month 13, day 99, hour 25,
\* minute 70).
C31_ParseRejectsInvalid ==
    (input.op = "parse_mrms_filename" /\ output.done) =>
        LET text == input.filename
            at == PatternAt(text)
        IN  /\ at = {} => output.parsed = None
            /\ \A i \in at :
                   (/\ \A j \in at : i <= j
                    /\ ~ValidDatetime(Named(SubSeq(text, i, i + 16)))) =>
                       output.parsed = None

\* C31 witness: the name of tests/test_utils.py:53, which matches the pattern
\* and reads month 13, day 99, hour 25, second 70, was parsed to none.
C31_Witness ==
    /\ input.op = "parse_mrms_filename"
    /\ output.done
    /\ input.filename = <<PREFIX, 2, 0, 2, 5, 1, 3, 9, 9, DASH, 2, 5, 0, 0, 7, 0, GRIB2>>
    /\ output.parsed = None

\* ----------------------------------------------------------- the scheduler
Executing(t) == task[t].pc \in {"fetch", "listing", "download"}
Live(t) == task[t].pc = "pending" \/ Executing(t)

\* asyncio.create_task(self.update_radar_data()): the coroutine starts at a
\* later turn of the event loop. Tasks take the slots 1, 2, ... in order.
FreeSlot(t) == task[t].pc = "none" /\ \A u \in Tasks : u < t => task[u].pc # "none"

create_task(t, by_timer) ==
    task' = [task EXCEPT ![t] = [NoTask EXCEPT !.pc = "pending", !.timer = by_timer,
                                               !.arrived = _is_running]]

\* RadarScheduler.start
start(t) ==
    /\ scheduler = "none"
    /\ FreeSlot(t)
    /\ scheduler' = "running"
    /\ create_task(t, FALSE)
    /\ UNCHANGED <<_is_running, last_outcome, last_result, faults, remote, dirs, partial, ledgerVars,
                   now, histVars, sideVars>>

\* The interval trigger fires; max_instances=1 (scheduler.py:138) drops the
\* fire while a task of the job has not finished.
timer_fire(t) ==
    /\ scheduler = "running"
    /\ FreeSlot(t)
    /\ \A u \in Tasks : ~(task[u].timer /\ Live(u))
    /\ create_task(t, TRUE)
    /\ UNCHANGED <<scheduler, _is_running, last_outcome, last_result, faults, remote, dirs, partial, ledgerVars,
                   now, histVars, sideVars>>

\* api.trigger_update: get_status() has no update_in_progress key while
\* self.scheduler is None, so the handler raises before it creates the task.
trigger_update(t) ==
    /\ scheduler # "none"
    /\ FreeSlot(t)
    /\ create_task(t, FALSE)
    /\ UNCHANGED <<scheduler, _is_running, last_outcome, last_result, faults, remote, dirs, partial, ledgerVars,
                   now, histVars, sideVars>>

\* update_radar_data with the reset of the flag forgotten.
end_cycle_keep_flag(t, out, result) ==
    /\ _is_running' = _is_running
    /\ last_outcome' = out
    /\ last_result' = result
    /\ task' = [task EXCEPT ![t] = [NoTask EXCEPT !.pc = "done"]]

\* update_radar_data with the reset of the flag at the end of the try block
\* instead of in a finally clause: an exception leaves the flag set.
end_cycle_no_finally(t, out, result) ==
    /\ _is_running' = (out = "error")
    /\ last_outcome' = out
    /\ last_result' = result
    /\ task' = [task EXCEPT ![t] = [NoTask EXCEPT !.pc = "done"]]

\* The finally clause of update_radar_data (scheduler.py:111-114) and the end
\* of the task.
end_cycle(t, out, result) ==
    /\ _is_running' = FALSE
    /\ last_outcome' = out
    /\ last_result' = result
    /\ task' = [task EXCEPT ![t] = [NoTask EXCEPT !.pc = "done"]]

\* update_radar_data without its guard.
skips_never(flag) == FALSE

\* The guard of update_radar_data (scheduler.py:35-37): the invocation is
\* skipped when it reads the flag set.
skips(flag) == flag

\* update_radar_data up to its first await (scheduler.py:35-52). The event
\* loop starts tasks in the order they were created.
update_begin(t) ==
    /\ task[t].pc = "pending"
    /\ \A u \in Tasks : u < t => task[u].pc # "pending"
    /\ IF skips(_is_running)
       THEN /\ task' = [task EXCEPT ![t] = [NoTask EXCEPT !.pc = "done"]]
            /\ _is_running' = _is_running
       ELSE /\ _is_running' = TRUE
            /\ task' = [task EXCEPT ![t] = [@ EXCEPT !.pc = "fetch"]]
    /\ UNCHANGED <<last_outcome, last_result, faults>>
    /\ UNCHANGED <<scheduler, remote, dirs, partial, ledgerVars, now, histVars, sideVars>>

\* The registration made unconditional.
any_landed_always(downloaded) == TRUE

\* scheduler.py:84: if downloaded
any_landed(downloaded) == downloaded # {}

\* update_radar_data from the listing's arrival to the downloader's first
\* await (scheduler.py:52-82, scraper.py:235-239).
update_fetched(t, ok) ==
    /\ task[t].pc = "fetch"
    /\ LET files_list == fetch_file_list(Listing(LowestAngle))
       IN  IF ~ok
           THEN /\ faults < MaxFaults
                /\ faults' = faults + 1
                /\ end_cycle(t, "error", {})
           ELSE /\ UNCHANGED faults
                /\ IF files_list = <<>>
                   THEN end_cycle(t, "nofiles", {})
                   ELSE IF has_timestamp(_timestamps, files_list[1])
                   THEN end_cycle(t, "noop", {})
                   ELSE /\ task' = [task EXCEPT ![t] = [@ EXCEPT !.pc = "listing",
                                                                 !.ts = files_list[1]]]
                        /\ UNCHANGED <<_is_running, last_outcome, last_result>>
    /\ UNCHANGED <<scheduler, remote, dirs, partial, ledgerVars, now, histVars, sideVars>>

\* download_latest_multi_elevation from the listings' arrival to the loop
\* (scraper.py:239-249); an empty lowest listing returns {} to the scheduler.
update_listed(t, failed) ==
    /\ task[t].pc = "listing"
    /\ faults + Cardinality(failed) <= MaxFaults
    /\ faults' = faults + Cardinality(failed)
    /\ LET file_lists == fetch_file_list_multi_elevation(failed)
       IN  IF file_lists[LowestAngle] = <<>>
           THEN end_cycle(t, "nothing", {})
           ELSE LET target_timestamp == file_lists[LowestAngle][1]
                IN  /\ task' = [task EXCEPT ![t] =
                          [@ EXCEPT !.pc = "download", !.idx = 1,
                                    !.match = [a \in Angles |->
                                                closest(file_lists[a], target_timestamp)]]]
                    /\ UNCHANGED <<_is_running, last_outcome, last_result>>
    /\ UNCHANGED <<scheduler, remote, dirs, partial, ledgerVars, now, histVars, sideVars>>

\* The files the janitor passes over the result would try to unlink.
Removable(d, downloaded) ==
    UNION {files_to_remove(d[a], max_cache_size) : a \in downloaded}

\* The rest of a cycle once the loop is over (scraper.py:302-309,
\* scheduler.py:84-114), with no await in it: the janitor passes, the
\* registration, the log of the files' sizes (a stat of each returned path),
\* the finally clause. d and downloaded are the directories and the result the
\* loop left, met the failures the last pass met.
finish(t, d, downloaded, met) ==
    \E stuck \in SUBSET Removable(d, downloaded), save \in SaveOutcomes :
       LET d2 == cleanup_downloaded(d, downloaded, stuck)
           ts == task[t].ts
           writes == any_landed(downloaded) /\ ~has_timestamp(_timestamps, ts)
           st == add_timestamp(_timestamps, _last_check, tracker_file, ts, now, save)
           stat_ok == \A a \in downloaded :
                         Exists(d2[a], File(a, task[t].match[a], "grib2"))
           cost == met + Cardinality(stuck) + (IF writes /\ save # "ok" THEN 1 ELSE 0)
       IN  /\ ~writes => save = "ok"
           /\ faults + cost <= MaxFaults
           /\ faults' = faults + cost
           /\ dirs' = d2
           /\ IF any_landed(downloaded)
              THEN /\ _timestamps' = st[1]
                   /\ _last_check' = st[2]
                   /\ tracker_file' = st[3]
                   /\ end_cycle(t, IF stat_ok THEN "registered" ELSE "error", downloaded)
              ELSE /\ UNCHANGED ledgerVars
                   /\ end_cycle(t, "nothing", downloaded)

\* One pass of the downloader's loop (scraper.py:253-300); the last pass runs
\* on to the end of the cycle. An exception of the cache-hit branch leaves
\* the downloader and ends the cycle.
update_download(t, dl, dec) ==
    /\ task[t].pc = "download"
    /\ LET a == task[t].idx
           r == process_angle(dirs[a], a, task[t].match[a], dl, dec)
           d == [dirs EXCEPT ![a] = r.dir]
           downloaded == task[t].downloaded \cup (IF r.landed THEN {a} ELSE {})
       IN  IF r.raised
           THEN /\ faults + r.failed <= MaxFaults
                /\ faults' = faults + r.failed
                /\ dirs' = d
                /\ UNCHANGED ledgerVars
                /\ end_cycle(t, "error", {})
           ELSE IF a < Len(elevation_angles)
           THEN /\ faults + r.failed <= MaxFaults
                /\ faults' = faults + r.failed
                /\ dirs' = d
                /\ task' = [task EXCEPT ![t] = [@ EXCEPT !.idx = a + 1,
                                                         !.downloaded = downloaded]]
                /\ UNCHANGED <<_is_running, last_outcome, last_result, ledgerVars>>
           ELSE finish(t, d, downloaded, r.failed)
    /\ LET a == task[t].idx
       IN  partial' = Held(partial_after(partial, dirs[a], a, task[t].match[a], dl, dec),
                           dirs')
    /\ UNCHANGED <<scheduler, remote, now, histVars, sideVars>>

\* The next scan appears on an elevation's remote listing.
publish(a) ==
    /\ remote[a] < MaxId
    /\ remote' = [remote EXCEPT ![a] = @ + 1]
    /\ UNCHANGED <<scheduler, _is_running, task, last_outcome, last_result, faults, dirs, partial, ledgerVars,
                   now, histVars, sideVars>>

\* The state after RadarScheduler() over a fresh cache directory
\* (scheduler.py:22-27): the tracker finds no record and writes an empty one.
Init ==
    /\ scheduler = "none"
    /\ _is_running = FALSE
    /\ task = [t \in Tasks |-> NoTask]
    /\ last_outcome = "none"
    /\ last_result = {}
    /\ lock = 0
    /\ caller = [c \in Callers |-> NoCall]
    /\ input = NoInput
    /\ output = NoOutput
    /\ remote \in [Angles -> 0..MaxId]
    /\ dirs = [a \in Angles |-> <<>>]
    /\ partial = {}
    /\ now = 0
    /\ lastAdd = 0
    /\ repeated = FALSE
    /\ added = {}
    /\ loaded = "missing"
    /\ \E save \in SaveOutcomes :
         LET st == _load(MissingFile, 0, save)
         IN  /\ faults = (IF save = "ok" THEN 0 ELSE 1)
             /\ _timestamps = st[1]
             /\ _last_check = st[2]
             /\ tracker_file = st[3]

Next ==
    \/ \E t \in Tasks : start(t)
    \/ \E t \in Tasks : timer_fire(t)
    \/ \E t \in Tasks : trigger_update(t)
    \/ \E t \in Tasks : update_begin(t)
    \/ \E t \in Tasks, ok \in BOOLEAN : update_fetched(t, ok)
    \/ \E t \in Tasks, failed \in SUBSET Angles : update_listed(t, failed)
    \/ \E t \in Tasks, dl \in DownloadOutcomes, dec \in DecOutcomes :
          update_download(t, dl, dec)
    \/ \E a \in Angles : publish(a)

Spec == Init /\ [][Next]_vars

\* Every await of a cycle returns: each request carries
\* ClientTimeout(total=settings.download_timeout) (scraper.py:80, 161) and the
\* event loop resumes the task.
CycleStep(t) ==
    \/ \E ok \in BOOLEAN : update_fetched(t, ok)
    \/ \E failed \in SUBSET Angles : update_listed(t, failed)
    \/ \E dl \in DownloadOutcomes, dec \in DecOutcomes : update_download(t, dl, dec)

\* The scheduler over listings that hold still, its cycles always resumed.
FairNext ==
    \/ \E t \in Tasks : start(t)
    \/ \E t \in Tasks : timer_fire(t)
    \/ \E t \in Tasks : trigger_update(t)
    \/ \E t \in Tasks : update_begin(t)
    \/ \E t \in Tasks, ok \in BOOLEAN : update_fetched(t, ok)
    \/ \E t \in Tasks, failed \in SUBSET Angles : update_listed(t, failed)
    \/ \E t \in Tasks, dl \in DownloadOutcomes, dec \in DecOutcomes :
          update_download(t, dl, dec)

FairSpec == Init /\ [][FairNext]_vars /\ \A t \in Tasks : WF_vars(CycleStep(t))

\* The end-to-end scenario: an empty ledger and an empty cache, both
\* elevations' listings carrying the same scans, and no failure anywhere.
E2EInit ==
    /\ scheduler = "none"
    /\ _is_running = FALSE
    /\ task = [t \in Tasks |-> NoTask]
    /\ last_outcome = "none"
    /\ last_result = {}
    /\ faults = MaxFaults
    /\ lock = 0
    /\ caller = [c \in Callers |-> NoCall]
    /\ input = NoInput
    /\ output = NoOutput
    /\ \E n \in Ids : remote = [a \in Angles |-> n]
    /\ dirs = [a \in Angles |-> <<>>]
    /\ partial = {}
    /\ now \in 0..MaxTime
    /\ lastAdd = 0
    /\ repeated = FALSE
    /\ added = {}
    /\ loaded = "missing"
    /\ LET st == _load(MissingFile, now, "ok")
       IN  /\ _timestamps = st[1]
           /\ _last_check = st[2]
           /\ tracker_file = st[3]

E2ENext ==
    \/ \E t \in Tasks : start(t)
    \/ \E t \in Tasks : timer_fire(t)
    \/ \E t \in Tasks : trigger_update(t)
    \/ \E t \in Tasks : update_begin(t)
    \/ \E t \in Tasks, ok \in BOOLEAN : update_fetched(t, ok)
    \/ \E t \in Tasks, failed \in SUBSET Angles : update_listed(t, failed)
    \/ \E t \in Tasks, dl \in DownloadOutcomes, dec \in DecOutcomes :
          update_download(t, dl, dec)

E2ESpec == E2EInit /\ [][E2ENext]_vars

\* --------------------------------------------- the shared cache directory
\* With settings.use_elevation_subdirs off, get_cache_path returns
\* self.cache_dir for every elevation (scraper.py:57): all elevations' files
\* lie in one directory, the directory DownloadTracker keeps downloads.json
\* in (download_tracker.py:26, scheduler.py:26). dirs[a] is then that one
\* directory for every a, and the record is one of its files.
LedgerFile == File(0, 0, "json")

\* get_cache_path in this layout: writing to an elevation's directory writes
\* to the directory of all.
Shared(dir) == [a \in Angles |-> dir]

\* The stages of a cycle after the loop: the janitor passes, then the return
\* to update_radar_data and the registration.
AtCleanup == Len(elevation_angles) + 1
AtRegister == Len(elevation_angles) + 2

\* RadarScheduler() over a fresh shared cache directory: the record the
\* tracker writes, when its write creates one, is the directory's only file.
SharedInit ==
    /\ scheduler = "none"
    /\ _is_running = FALSE
    /\ task = [t \in Tasks |-> NoTask]
    /\ last_outcome = "none"
    /\ last_result = {}
    /\ faults = 0
    /\ lock = 0
    /\ caller = [c \in Callers |-> NoCall]
    /\ input = NoInput
    /\ output = NoOutput
    /\ remote \in [Angles -> 0..MaxId]
    /\ dirs = Shared(<<LedgerFile>>)
    /\ partial = {}
    /\ now = 0
    /\ lastAdd = 0
    /\ repeated = FALSE
    /\ added = {}
    /\ loaded = "missing"
    /\ LET st == _load(MissingFile, 0, "ok")
       IN  /\ _timestamps = st[1]
           /\ _last_check = st[2]
           /\ tracker_file = st[3]

\* One pass of the downloader's loop (scraper.py:253-300) in the shared
\* directory.
shared_download(t, dl, dec) ==
    /\ task[t].pc = "download"
    /\ task[t].idx <= Len(elevation_angles)
    /\ LET a == task[t].idx
           r == process_angle(dirs[a], a, task[t].match[a], dl, dec)
       IN  /\ faults + r.failed <= MaxFaults
           /\ faults' = faults + r.failed
           /\ dirs' = Shared(r.dir)
           /\ IF r.raised
              THEN end_cycle(t, "error", {})
              ELSE /\ task' = [task EXCEPT ![t] =
                         [@ EXCEPT !.idx = a + 1,
                                   !.downloaded = @ \cup (IF r.landed THEN {a} ELSE {})]]
                   /\ UNCHANGED <<_is_running, last_outcome, last_result>>
    /\ LET a == task[t].idx
       IN  partial' = Held(partial_after(partial, dirs[a], a, task[t].match[a], dl, dec),
                           dirs')
    /\ UNCHANGED <<scheduler, remote, ledgerVars, now, histVars, sideVars>>

\* scraper.py:304-309 in the shared directory: one janitor pass per elevation
\* of the result, each over the directory of all (glob("*") lists the record
\* with the scans), then the return. A pass after the first finds the files
\* the first could not unlink, and fails on them again.
shared_cleanup(t) ==
    /\ task[t].pc = "download"
    /\ task[t].idx = AtCleanup
    /\ LET dir == dirs[LowestAngle]
           doomed == IF task[t].downloaded = {} THEN {}
                     ELSE files_to_remove(dir, max_cache_size)
       IN  \E stuck \in SUBSET doomed :
              /\ faults + Cardinality(stuck) <= MaxFaults
              /\ faults' = faults + Cardinality(stuck)
              /\ dirs' = Shared(IF task[t].downloaded = {} THEN dir
                                ELSE cleanup_old_files(dir, max_cache_size, stuck))
              /\ tracker_file' = IF LedgerFile \in doomed \ stuck THEN MissingFile
                                 ELSE tracker_file
    /\ partial' = Held(partial, dirs')
    /\ task' = [task EXCEPT ![t] = [@ EXCEPT !.idx = AtRegister]]
    /\ UNCHANGED <<scheduler, _is_running, last_outcome, last_result, remote,
                   _timestamps, _last_check, now, histVars, sideVars>>

\* scheduler.py:84-114 in the shared directory: the registration, whose write
\* makes the record the newest file of the directory, the log of the files'
\* sizes (a stat of each returned path), the finally clause.
shared_register(t) ==
    /\ task[t].pc = "download"
    /\ task[t].idx = AtRegister
    /\ \E save \in SaveOutcomes :
          LET downloaded == task[t].downloaded
              ts == task[t].ts
              dir == dirs[LowestAngle]
              writes == any_landed(downloaded) /\ ~has_timestamp(_timestamps, ts)
              st == add_timestamp(_timestamps, _last_check, tracker_file, ts, now, save)
              stat_ok == \A a \in downloaded : Exists(dir, File(a, task[t].match[a], "grib2"))
              cost == IF writes /\ save # "ok" THEN 1 ELSE 0
          IN  /\ ~writes => save = "ok"
              /\ faults + cost <= MaxFaults
              /\ faults' = faults + cost
              /\ IF any_landed(downloaded)
                 THEN /\ _timestamps' = st[1]
                      /\ _last_check' = st[2]
                      /\ tracker_file' = st[3]
                      /\ dirs' = IF writes /\ save # "eopen"
                                 THEN Shared(WriteFile(dir, LedgerFile)) ELSE dirs
                      /\ end_cycle(t, IF stat_ok THEN "registered" ELSE "error", downloaded)
                 ELSE /\ UNCHANGED <<ledgerVars, dirs>>
                      /\ end_cycle(t, "nothing", downloaded)
    /\ UNCHANGED <<scheduler, remote, partial, now, histVars, sideVars>>

SharedNext ==
    \/ \E t \in Tasks : start(t)
    \/ \E t \in Tasks : timer_fire(t)
    \/ \E t \in Tasks : trigger_update(t)
    \/ \E t \in Tasks : update_begin(t)
    \/ \E t \in Tasks, ok \in BOOLEAN : update_fetched(t, ok)
    \/ \E t \in Tasks, failed \in SUBSET Angles : update_listed(t, failed)
    \/ \E t \in Tasks, dl \in DownloadOutcomes, dec \in DecOutcomes :
          shared_download(t, dl, dec)
    \/ \E t \in Tasks : shared_cleanup(t)
    \/ \E t \in Tasks : shared_register(t)
    \/ \E a \in Angles : publish(a)

\* The scheduler with one cache directory for all elevations and the ledger.
SharedSpec == SharedInit /\ [][SharedNext]_vars

\* C36 (as stated): every path in the downloader's result names a file that
\* still exists when the result is returned: the janitor passes at the end of
\* the batch never evict a file the same batch returned, including cache-hit
\* files with old modification times and the shared-directory layout.
C36_ResultFilesExist ==
    \A t \in Tasks :
        (task[t].pc = "download" /\ task[t].idx = AtRegister) =>
            \A a \in task[t].downloaded :
                Exists(dirs[a], File(a, task[t].match[a], "grib2"))

\* C38 (as stated): no janitor pass ever deletes the ledger's persisted
\* record, in either cache layout: once downloads.json exists no step
\* removes it.
C38_JanitorSparesLedger ==
    [][tracker_file.state # "missing" => tracker_file'.state # "missing"]_vars

\* ------------------------------------------- start, shutdown and the status
\* settings.update_interval, in seconds.
update_interval == 300

\* RadarScheduler.get_status: the dictionary it returns. While self.scheduler
\* is None it holds two keys (scheduler.py:168-172); otherwise the job's
\* next_run_time is set, the scheduler having been started.
get_status ==
    IF scheduler = "none"
    THEN [running |-> FALSE, message |-> "Scheduler not started"]
    ELSE [running |-> TRUE,
          update_in_progress |-> _is_running,
          update_interval |-> update_interval,
          next_run |-> "next_run_time",
          last_check |-> _last_check,
          tracked_timestamps |-> Cardinality(_timestamps)]

\* A call of get_status and what it returned.
call_get_status ==
    /\ input' = [op |-> "get_status"]
    /\ output' = [done |-> TRUE, status |-> get_status]
    /\ UNCHANGED <<threadVars, ledgerVars, now, histVars, schedVars>>

\* start() on a scheduler that is started returning at once, restarting.
start_again_restarts ==
    /\ scheduler # "none"
    /\ input' = [op |-> "start"]
    /\ output' = [done |-> TRUE]
    /\ \E t \in Tasks : FreeSlot(t) /\ create_task(t, FALSE)
    /\ UNCHANGED <<scheduler, _is_running, last_outcome, last_result, faults, remote, dirs, partial,
                   threadVars, ledgerVars, now, histVars>>

\* RadarScheduler.start on a scheduler that is started (scheduler.py:118-120):
\* a warning, and the call returns.
start_again ==
    /\ scheduler # "none"
    /\ input' = [op |-> "start"]
    /\ output' = [done |-> TRUE]
    /\ UNCHANGED <<threadVars, ledgerVars, now, histVars, schedVars>>

\* RadarScheduler.shutdown (scheduler.py:150-158). The job and its trigger go
\* with the scheduler object. The tasks made by asyncio.create_task are not
\* the scheduler's and run on; the executor of some APScheduler releases
\* cancels the job's unfinished runs (cancels tells), and a cancelled run that
\* has not begun never does.
shutdown(cancels) ==
    /\ scheduler # "none"
    /\ scheduler' = "none"
    /\ task' = [t \in Tasks |->
                  IF cancels /\ task[t].timer /\ task[t].pc = "pending"
                  THEN [NoTask EXCEPT !.pc = "done"]
                  ELSE IF cancels /\ task[t].timer /\ Executing(t)
                  THEN [task[t] EXCEPT !.pc = "cancelled"]
                  ELSE task[t]]
    /\ UNCHANGED <<_is_running, last_outcome, last_result, faults, remote, dirs, partial, ledgerVars,
                   now, histVars, sideVars>>

\* CancelledError reaches a cancelled run at its await: no except clause of
\* update_radar_data catches it, the finally clause runs.
update_cancelled(t) ==
    /\ task[t].pc = "cancelled"
    /\ end_cycle(t, "cancelled", {})
    /\ UNCHANGED <<scheduler, faults, remote, dirs, partial, ledgerVars, now, histVars, sideVars>>

\* The scheduler object started, asked for its status, shut down and started
\* again, over listings that hold still and with no failure.
StatusNext ==
    \/ \E t \in Tasks : start(t)
    \/ start_again
    \/ \E cancels \in BOOLEAN : shutdown(cancels)
    \/ call_get_status
    \/ \E t \in Tasks : timer_fire(t)
    \/ \E t \in Tasks : update_begin(t)
    \/ \E t \in Tasks : update_cancelled(t)
    \/ \E t \in Tasks, ok \in BOOLEAN : update_fetched(t, ok)
    \/ \E t \in Tasks, failed \in SUBSET Angles : update_listed(t, failed)
    \/ \E t \in Tasks, dl \in DownloadOutcomes, dec \in DecOutcomes :
          update_download(t, dl, dec)

StatusSpec == E2EInit /\ [][StatusNext]_vars

\* The keys of the status the specification lists.
StatusKeys == {"running", "update_in_progress", "next_run", "last_check",
               "tracked_timestamps"}

\* C32 (as stated): in every scheduler state (before start, running with or
\* without a cycle in flight, after shutdown) the status reports the running
\* flag, the update-in-progress flag, the next fire time, the last-check
\* instant and the tracked-id count.
C32_StatusComplete ==
    (input.op = "get_status" /\ output.done) =>
        StatusKeys \subseteq DOMAIN output.status

\* A call of start() made on a scheduler that is not started.
Starts == scheduler = "none" /\ scheduler' = "running"

\* A call of start() made on a scheduler that is started.
StartsAgain == scheduler # "none" /\ input'.op = "start" /\ input.op # "start"

\* The invocation of slot t begins (it was made by start(): the timer's
\* invocations aside, no other is made here).
Begins(t) == task[t].pc = "pending" /\ task'[t].pc # "pending" /\ ~task[t].timer
                /\ scheduler' = scheduler

\* C33 (as stated): starting the scheduler registers the interval timer and
\* starts exactly one refresh cycle immediately, before the first interval-
\* timer fire; a second start while already started registers no second
\* timer and starts no second initial cycle.
C33_StartRunsOneCycle ==
    [][/\ Starts =>
             \E t \in Tasks :
                 /\ task[t].pc = "none"
                 /\ task'[t].pc = "pending"
                 /\ ~task'[t].timer
                 /\ \A u \in Tasks \ {t} : task'[u] = task[u]
       /\ \A t \in Tasks :
             Begins(t) =>
                 /\ task'[t].pc = "fetch"
                 /\ \A u \in Tasks : u > t => task[u].pc \in {"none", "pending", "done"}
       /\ StartsAgain => (task' = task /\ scheduler' = scheduler)]_vars

\* C33 (amended): starting the scheduler registers the interval timer and
\* makes exactly one invocation of the refresh cycle, which begins before any
\* invocation the timer makes; at the first start it runs a cycle, at a start
\* that follows a shutdown it runs a cycle unless a cycle is in flight when it
\* begins, and is skipped then. A second start while already started
\* registers no second timer and makes no second invocation.
C33_StartInvokesOnce ==
    [][/\ Starts =>
             \E t \in Tasks :
                 /\ task[t].pc = "none"
                 /\ task'[t].pc = "pending"
                 /\ ~task'[t].timer
                 /\ \A u \in Tasks \ {t} : task'[u] = task[u]
       /\ \A t \in Tasks :
             Begins(t) =>
                 /\ task'[t].pc = "fetch" \/ (t > 1 /\ _is_running /\ task'[t].pc = "done")
                 /\ \A u \in Tasks : u > t => task[u].pc \in {"none", "pending", "done"}
       /\ StartsAgain => (task' = task /\ scheduler' = scheduler)]_vars

\* C33 witness: a second start() returned while the cycle of the first was
\* in flight, and the timer's first invocation waits behind it.
C33_Witness ==
    /\ input.op = "start"
    /\ output.done
    /\ scheduler = "running"
    /\ Executing(1)
    /\ ~task[1].timer
    /\ task[2].pc = "pending"
    /\ task[2].timer

\* ------------------------------------------------------------- the claims
InFlight == {t \in Tasks : Executing(t)}

\* C1: at any moment at most one refresh cycle is executing, whatever mix of
\* timer fires, manual triggers and the initial run created the invocations.
C1_SingleFlight == Cardinality(InFlight) <= 1

\* C1 witness: a cycle is executing and an invocation created meanwhile was
\* turned away (a task is over though no cycle has ended yet).
C1_Witness ==
    \E t, u \in Tasks :
        /\ t # u
        /\ Executing(t)
        /\ task[u].pc = "done"
        /\ last_outcome = "none"

\* C2: the in-progress flag is true exactly while a cycle is executing; an
\* invocation that is skipped leaves it set.
C2_FlagIffExecuting == _is_running <=> (InFlight # {})

\* C2 witness: the flag is still set, and the cycle still downloading, after
\* another invocation was skipped.
C2_Witness ==
    /\ _is_running
    /\ \E t \in Tasks : task[t].pc = "download"
    /\ \E u \in Tasks : task[u].pc = "done"
    /\ last_outcome = "none"

\* C3: every cycle that starts eventually ends and the scheduler is idle again
\* (no cycle executing, flag clear), whatever failed in it.
C3_CycleEnds == (InFlight # {}) ~> (InFlight = {} /\ ~_is_running)

\* C3 witness: a cycle ended on a failure and a later trigger started a new
\* cycle.
C3_Witness ==
    /\ last_outcome = "error"
    /\ faults > 0
    /\ \E t \in Tasks : task[t].pc = "fetch"

\* C4 (as stated): a trigger that arrives while a cycle is in flight is
\* dropped: the invocation it created never fetches or downloads.
C4_TriggerDropped == \A t \in Tasks : task[t].arrived => ~Executing(t)

\* C5: when the newest id of the lowest elevation's listing is already in the
\* ledger, the cycle ends at once: the downloader and the janitor are not
\* invoked, and the ledger's set, its record and the cache directories stay
\* as they are.
C5_NoopWhenRegistered ==
    [][\A t \in Tasks :
          (/\ task[t].pc = "fetch"
           /\ task'[t].pc # "fetch"
           /\ remote[LowestAngle] \in _timestamps)
          => /\ task'[t].pc = "done"
             /\ ~_is_running'
             /\ _timestamps' = _timestamps
             /\ tracker_file' = tracker_file
             /\ dirs' = dirs]_vars

\* C5 witness: a cycle ended as a no-op over a ledger and a cache that an
\* earlier cycle had filled.
C5_Witness ==
    /\ last_outcome = "noop"
    /\ remote[LowestAngle] \in _timestamps
    /\ dirs[LowestAngle] # <<>>

\* C6: a cycle registers its identifier if and only if the downloader's result
\* is non-empty: a step changes the ledger only if it ends a cycle whose
\* result is non-empty, and such a step leaves the cycle's id in the ledger.
C6_RegistersIffLanded ==
    [][/\ \A t \in Tasks :
             (Executing(t) /\ task'[t].pc = "done" /\ last_result' # {})
             => task[t].ts \in _timestamps'
       /\ (<<_timestamps, tracker_file>>' # <<_timestamps, tracker_file>>)
             => \E t \in Tasks : /\ task[t].pc = "download"
                                 /\ task'[t].pc = "done"
                                 /\ last_result' # {}]_vars

\* C6 witness: a cycle whose result lacked an elevation registered its id.
C6_Witness ==
    /\ last_outcome = "registered"
    /\ last_result # {}
    /\ last_result # Angles
    /\ _timestamps # {}

GribFiles(a) == {f \in Range(dirs[a]) : f[3] = "grib2"}

\* C7: from an empty ledger and two elevations whose listings carry the same
\* ids, one cycle leaves exactly one id in the ledger and exactly one
\* decompressed file in each elevation's directory, and a cycle that follows
\* registers nothing further.
C7_EndToEnd ==
    /\ last_outcome \in {"none", "registered", "noop"}
    /\ last_outcome = "none" => _timestamps = {}
    /\ last_outcome # "none" =>
          /\ _timestamps = {remote[LowestAngle]}
          /\ tracker_file.timestamps = <<remote[LowestAngle]>>
          /\ \A a \in Angles : GribFiles(a) = {File(a, remote[a], "grib2")}

\* C7 witness: the second cycle ran and ended as a no-op.
C7_Witness ==
    /\ last_outcome = "noop"
    /\ Cardinality(_timestamps) = 1
    /\ \A a \in Angles : Cardinality(GribFiles(a)) = 1

\* C35 (as stated): the identifier a cycle registers in the ledger is the
\* identifier the downloader used as its target in that same cycle (the
\* newest entry of the lowest elevation's listing as the downloader fetched
\* it, which is also the entry it selects for that elevation), also when the
\* remote listing changes between the scheduler's fetch and the downloader's.
C35_RegistersDownloadedTarget ==
    [][\A t \in Tasks :
          (/\ task[t].pc = "download"
           /\ task'[t].pc = "done"
           /\ last_outcome' = "registered") =>
              /\ task[t].ts = task[t].match[LowestAngle]
              /\ task[t].match[LowestAngle] \in _timestamps']_vars

\* What a run that was stopped, or whose decompression failed, leaves in
\* elevation a's cache directory for the next process: nothing, a compressed
\* file alone, or a compressed file and its decompressed form.
WarmDirs(a) ==
    {<<>>} \cup {<<File(a, id, "gz")>> : id \in Ids}
           \cup {<<File(a, id, "gz"), File(a, id, "grib2")>> : id \in Ids}

\* The scheduler constructed over such a cache and the empty record that run
\* wrote when it started.
WarmInit ==
    /\ scheduler = "none"
    /\ _is_running = FALSE
    /\ task = [t \in Tasks |-> NoTask]
    /\ last_outcome = "none"
    /\ last_result = {}
    /\ faults = 0
    /\ lock = 0
    /\ caller = [c \in Callers |-> NoCall]
    /\ input = NoInput
    /\ output = NoOutput
    /\ remote \in [Angles -> 0..MaxId]
    /\ dirs \in [Angles -> UNION {WarmDirs(a) : a \in Angles}]
    /\ \A a \in Angles : dirs[a] \in WarmDirs(a)
    /\ partial = {}
    /\ now = 0
    /\ lastAdd = 0
    /\ repeated = FALSE
    /\ added = {}
    /\ loaded = "ok"
    /\ LET st == _load(Record(<<>>, 0), 0, "ok")
       IN  /\ _timestamps = st[1]
           /\ _last_check = st[2]
           /\ tracker_file = st[3]

WarmSpec == WarmInit /\ [][FairNext]_vars

\* A pass of the downloader's loop by task t on elevation a.
Pass(t, a) == task[t].pc = "download" /\ task[t].idx = a /\ task'[t] # task[t]

\* C18 (as stated): a failure while obtaining one elevation's file, in the
\* download or in the decompression, excludes only that elevation: after a
\* pass that is not the last the next elevation is attempted with the result
\* so far kept, and after the last pass the downloader returns a result that
\* holds every elevation that succeeded before.
C18_FailureExcludesOnlyThatElevation ==
    [][\A t \in Tasks, a \in Angles :
          Pass(t, a) =>
             IF a < Len(elevation_angles)
             THEN /\ task'[t].pc = "download"
                  /\ task'[t].idx = a + 1
                  /\ task[t].downloaded \subseteq task'[t].downloaded
             ELSE /\ task'[t].pc = "done"
                  /\ last_outcome' # "error"
                  /\ task[t].downloaded \subseteq last_result']_vars

\* C17 (as stated): when the compressed file of the selected entry is already
\* in the elevation's cache directory, the pass issues no download (the
\* compressed file is not rewritten), still includes the elevation in the
\* result, and decompresses only when the decompressed form is absent.
C17_CacheHitReused ==
    [][\A t \in Tasks, a \in Angles :
          LET gz == File(a, task[t].match[a], "gz")
              grib2 == File(a, task[t].match[a], "grib2")
          IN  (Pass(t, a) /\ task[t].match[a] # 0 /\ gz \in Range(dirs[a])) =>
                 IF a < Len(elevation_angles)
                 THEN /\ task'[t].pc = "download"
                      /\ a \in task'[t].downloaded
                      /\ SelectSeq(dirs'[a], LAMBDA x : x # grib2)
                            = SelectSeq(dirs[a], LAMBDA x : x # grib2)
                      /\ grib2 \in Range(dirs[a]) => dirs' = dirs
                 ELSE a \in last_result']_vars

\* C37 (as stated): a cached file reused on a cache hit is always complete.
\* When a pass finds the compressed file and its decompressed form in the
\* cache and puts the elevation in the result without writing anything, that
\* decompressed file is not one a failed decompression left incomplete.
C37_ReusedFileComplete ==
    [][\A t \in Tasks, a \in Angles :
          LET gz == File(a, task[t].match[a], "gz")
              grib2 == File(a, task[t].match[a], "grib2")
              result == IF task'[t].pc = "download" THEN task'[t].downloaded
                        ELSE last_result'
          IN  (/\ Pass(t, a)
               /\ task[t].match[a] # 0
               /\ gz \in Range(dirs[a])
               /\ grib2 \in Range(dirs[a])
               /\ a \in result) => grib2 \notin partial]_vars

====
